---- MODULE Spec2Model ----
(***************************************************************************)
(* B+ tree index of smiling689/BPlusTree: header page, leaf and internal   *)
(* pages as arrays of (key, value) slots, and the operations of            *)
(* storage/index/b_plus_tree.cpp executed one call at a time.              *)
(***************************************************************************)
EXTENDS Integers, Sequences, FiniteSets, TLC

(* ------------------------------ bounds -------------------------------- *)
\* keys are 1..MaxKey
MaxKey == 4
\* Remove is called with keys 1..MaxRemKey
MaxRemKey == 1
\* keys of the trees grown by Insert alone are 1..MaxGrowKey
MaxGrowKey == 6
\* keys of the calls of one thread followed latch by latch are 1..MaxPathKey
MaxPathKey == 5
MaxFairKey == 2
\* number of array slots of a page that the model keeps (the page is far
\* larger than max_size entries; the code writes one slot past size)
SlotCap == 5

Keys == 1..MaxKey
\* two distinct record ids (rid7a and rid7b of scenario S3)
Vals == {1, 2}
RemKeys == 1..MaxRemKey
FairKeys == 1..MaxFairKey
GrowKeys == 1..MaxGrowKey
PathKeys == 1..MaxPathKey
Slots == 0..(SlotCap - 1)

\* the pages of the buffer pool, more than any of the trees grown here needs;
\* MaxPool is the largest of the small pools that run out during a split
PoolPages == 64
MaxPool == 5

\* (leaf_max_size, internal_max_size) pairs given to the constructor
Configs == {<<2, 3>>, <<3, 4>>}

\* the result vectors handed to GetValue
ResultInputs == {<<>>, <<2>>}

(* ----------------------------- constants ------------------------------ *)
INVALID_PAGE_ID == -1
INVALID_INDEX_PAGE == 0
LEAF_PAGE == 1
INTERNAL_PAGE == 2
header_page_id_ == 0

VARIABLES
    root_page_id_,       \* the header page's only field
    pages,               \* page id -> page payload, for the ids handed out so far
    leaf_max_size_,
    internal_max_size_,
    pool_size_,          \* the number of pages the buffer pool can provide
    last,                \* the last call: operation, arguments, return value
    inserted,            \* <<k, v>> for every Insert(k, v) that returned true
    live,                \* keys inserted successfully and not passed to Remove since
    thr,                 \* thread -> its call: position in the code, Context, guards
    snap                 \* the tree when the first thread made its call

vars == <<root_page_id_, pages, leaf_max_size_, internal_max_size_, pool_size_, last,
          inserted, live, thr, snap>>

(* ------------------------------- pages -------------------------------- *)
\* Page(): the data of a page is zeroed; written records the highest slot
\* index SetKeyAt or SetValueAt was called with on the page, -1 for none
ZeroPage ==
    [page_type |-> INVALID_INDEX_PAGE, size |-> 0, max_size |-> 0, next_page_id |-> 0,
     key |-> [i \in Slots |-> 0], value |-> [i \in Slots |-> 0], written |-> -1]

\* BufferPoolManager::NewPageGuarded: the next unused page id, on a zeroed page
NewPageId(pg) == Len(pg) + 1
NewPageGuarded(pg) == Append(pg, ZeroPage)

\* the buffer pool cannot provide another page
PoolExhausted(pg) == Len(pg) >= pool_size_

IsLeafPage(p) == p.page_type = LEAF_PAGE
GetSize(p) == p.size
SetSize(p, n) == [p EXCEPT !.size = n]
IncreaseSize(p, n) == [p EXCEPT !.size = p.size + n]
GetMaxSize(p) == p.max_size
\* ceil(max_size / 2) for both kinds of page
GetMinSize(p) == (p.max_size + 1) \div 2

KeyAt(p, i) == p.key[i]
ValueAt(p, i) == p.value[i]
GetNextPageId(p) == p.next_page_id
SetNextPageId(p, id) == [p EXCEPT !.next_page_id = id]

LeafInit(p, max) ==
    [p EXCEPT !.page_type = LEAF_PAGE, !.size = 0, !.max_size = max,
              !.next_page_id = INVALID_PAGE_ID]

\* BPlusTreeLeafPage::SetAt writes only inside 0..size-1
SetAt(p, i, k, v) ==
    IF i >= 0 /\ i < GetSize(p)
    THEN [p EXCEPT !.key[i] = k, !.value[i] = v]
    ELSE p

InternalInit(p, max) ==
    [p EXCEPT !.page_type = INTERNAL_PAGE, !.size = 0, !.max_size = max]
SetKeyAt(p, i, k) == [p EXCEPT !.key[i] = k, !.written = IF i > @ THEN i ELSE @]
SetValueAt(p, i, v) == [p EXCEPT !.value[i] = v, !.written = IF i > @ THEN i ELSE @]

(* --------------------------- binary search ---------------------------- *)
\* the while loop shared by both BinaryFind overloads; yields r
RECURSIVE BinaryFindLoop(_, _, _, _)
BinaryFindLoop(p, key, l, r) ==
    IF l < r
    THEN LET mid == (l + r + 1) \div 2
         IN IF KeyAt(p, mid) <= key
            THEN BinaryFindLoop(p, key, mid, r)
            ELSE BinaryFindLoop(p, key, l, mid - 1)
    ELSE r

\* BinaryFindLeaf with the last comparison taken as "not less": an equal key
\* counts as greater
BinaryFindLeaf_Strict(leaf_page, key) ==
    LET r == BinaryFindLoop(leaf_page, key, 0, GetSize(leaf_page) - 1)
    IN IF r >= 0 /\ KeyAt(leaf_page, r) >= key THEN -1 ELSE r

\* BinaryFindLeaf without the check that follows the loop
BinaryFindLeaf_NoFallback(leaf_page, key) ==
    BinaryFindLoop(leaf_page, key, 0, GetSize(leaf_page) - 1)

BinaryFindLeaf(leaf_page, key) ==
    LET r == BinaryFindLoop(leaf_page, key, 0, GetSize(leaf_page) - 1)
    IN IF r >= 0 /\ KeyAt(leaf_page, r) > key THEN -1 ELSE r

\* BinaryFindInternal without the check that follows the loop
BinaryFindInternal_NoFallback(internal_page, key) ==
    BinaryFindLoop(internal_page, key, 1, GetSize(internal_page) - 1)

\* BinaryFindInternal sending a key equal to a separator to slot 0
BinaryFindInternal_Strict(internal_page, key) ==
    LET r == BinaryFindLoop(internal_page, key, 1, GetSize(internal_page) - 1)
    IN IF r = -1 \/ KeyAt(internal_page, r) >= key THEN 0 ELSE r

BinaryFindInternal(internal_page, key) ==
    LET r == BinaryFindLoop(internal_page, key, 1, GetSize(internal_page) - 1)
    IN IF r = -1 \/ KeyAt(internal_page, r) > key THEN 0 ELSE r

(* ------------------------------ search -------------------------------- *)
IsEmpty == root_page_id_ = INVALID_PAGE_ID

GetRootPageId == root_page_id_

\* GetValue's descent taking child 0 at every internal page, as Begin() does
RECURSIVE GetValueDescend_Leftmost(_, _, _)
GetValueDescend_Leftmost(pg, guard, key) ==
    IF IsLeafPage(pg[guard])
    THEN guard
    ELSE GetValueDescend_Leftmost(pg, ValueAt(pg[guard], 0), key)

\* the while loop of GetValue: from the page held by guard down to a leaf;
\* yields the leaf's page id (INVALID_PAGE_ID if BinaryFind gave -1)
RECURSIVE GetValueDescend(_, _, _)
GetValueDescend(pg, guard, key) ==
    IF IsLeafPage(pg[guard])
    THEN guard
    ELSE LET slot_num == BinaryFindInternal(pg[guard], key)
         IN IF slot_num = -1
            THEN INVALID_PAGE_ID
            ELSE GetValueDescend(pg, ValueAt(pg[guard], slot_num), key)

\* GetValue once the descent has latched the leaf
GetValueAtLeaf(leaf_page, key, result) ==
    LET slot_num == BinaryFindLeaf(leaf_page, key)
    IN IF slot_num # -1 /\ KeyAt(leaf_page, slot_num) = key
       THEN [ret |-> TRUE, result |-> Append(result, ValueAt(leaf_page, slot_num))]
       ELSE [ret |-> FALSE, result |-> result]

\* GetValue on the tree (pg, rt): [ret, result]
GetValueOn(pg, rt, key, result) ==
    IF rt = INVALID_PAGE_ID
    THEN [ret |-> FALSE, result |-> result]
    ELSE LET leaf == GetValueDescend(pg, rt, key)
         IN IF leaf = INVALID_PAGE_ID
            THEN [ret |-> FALSE, result |-> result]
            ELSE GetValueAtLeaf(pg[leaf], key, result)

GetValue(key, result) == GetValueOn(pages, root_page_id_, key, result)

(* ------------------------------ insert -------------------------------- *)
\* Safe_Insert calling a leaf safe while the insertion still fills it
Safe_Insert_LeafLate(page) ==
    IF IsLeafPage(page)
    THEN GetSize(page) < GetMaxSize(page)
    ELSE GetSize(page) < GetMaxSize(page)

\* Safe_Insert calling every internal page safe
Safe_Insert_InternalLate(page) ==
    IF IsLeafPage(page)
    THEN GetSize(page) + 1 < GetMaxSize(page)
    ELSE GetSize(page) <= GetMaxSize(page)

Safe_Insert(page) ==
    IF IsLeafPage(page)
    THEN GetSize(page) + 1 < GetMaxSize(page)
    ELSE GetSize(page) < GetMaxSize(page)

\* a descent step of Insert that unlatches the ancestors of every child
Crab_Always(pg, write_set_, next) == <<next>>

\* one pass of the descent loop of Insert: write_set_ after the child next
\* has been latched and, if it is safe, its ancestors unlatched
Crab(pg, write_set_, next) ==
    IF Safe_Insert(pg[next]) THEN <<next>> ELSE Append(write_set_, next)

\* a descent of Insert that takes child 0 at every internal page
RECURSIVE InsertDescend_Leftmost(_, _, _)
InsertDescend_Leftmost(pg, path, key) ==
    LET page == pg[path.write_set_[Len(path.write_set_)]]
    IN IF IsLeafPage(page)
       THEN path
       ELSE InsertDescend_Leftmost(
                pg, [path EXCEPT !.write_set_ = Crab(pg, @, ValueAt(page, 0))], key)

\* the descent loop of Insert: the Context after the leaf has been latched
RECURSIVE InsertDescend(_, _, _)
InsertDescend(pg, path, key) ==
    LET page == pg[path.write_set_[Len(path.write_set_)]]
    IN IF IsLeafPage(page)
       THEN path
       ELSE LET slot_num == BinaryFindInternal(page, key)
                next == ValueAt(page, slot_num)
            IN InsertDescend(pg, [path EXCEPT !.write_set_ = Crab(pg, @, next)], key)

\* the shift loop of Insert stopping one slot early
RECURSIVE LeafShiftUp_Short(_, _, _)
LeafShiftUp_Short(leaf_page, i, slot_num) ==
    IF i > slot_num + 1
    THEN LeafShiftUp_Short(SetAt(leaf_page, i, KeyAt(leaf_page, i - 1),
                                 ValueAt(leaf_page, i - 1)),
                           i - 1, slot_num)
    ELSE leaf_page

\* for (i = GetSize(); i > slot_num; --i) SetAt(i, KeyAt(i - 1), ValueAt(i - 1))
RECURSIVE LeafShiftUp(_, _, _)
LeafShiftUp(leaf_page, i, slot_num) ==
    IF i > slot_num
    THEN LeafShiftUp(SetAt(leaf_page, i, KeyAt(leaf_page, i - 1), ValueAt(leaf_page, i - 1)),
                     i - 1, slot_num)
    ELSE leaf_page

\* the copy loop of the leaf split moving the keys and leaving the values
RECURSIVE LeafMoveUpper_KeysOnly(_, _, _)
LeafMoveUpper_KeysOnly(new_leaf, leaf_page, i) ==
    IF i < GetSize(leaf_page)
    THEN LeafMoveUpper_KeysOnly(SetAt(new_leaf, i - GetMinSize(leaf_page),
                                      KeyAt(leaf_page, i), 0),
                                leaf_page, i + 1)
    ELSE new_leaf

\* for (i = GetMinSize(); i < GetSize(); ++i) new_leaf->SetAt(i - GetMinSize(), ...)
RECURSIVE LeafMoveUpper(_, _, _)
LeafMoveUpper(new_leaf, leaf_page, i) ==
    IF i < GetSize(leaf_page)
    THEN LeafMoveUpper(SetAt(new_leaf, i - GetMinSize(leaf_page),
                             KeyAt(leaf_page, i), ValueAt(leaf_page, i)),
                       leaf_page, i + 1)
    ELSE new_leaf

\* the shift loop of Insert_Up moving the child ids and leaving the keys
RECURSIVE InternalShiftUp_ValuesOnly(_, _, _)
InternalShiftUp_ValuesOnly(page, i, to) ==
    IF i >= to
    THEN InternalShiftUp_ValuesOnly(SetValueAt(page, i + 1, ValueAt(page, i)), i - 1, to)
    ELSE page

\* for (i = from; i >= to; --i) { SetKeyAt(i + 1, KeyAt(i)); SetValueAt(i + 1, ValueAt(i)); }
RECURSIVE InternalShiftUp(_, _, _)
InternalShiftUp(page, i, to) ==
    IF i >= to
    THEN InternalShiftUp(SetValueAt(SetKeyAt(page, i + 1, KeyAt(page, i)),
                                    i + 1, ValueAt(page, i)),
                         i - 1, to)
    ELSE page

\* the copy loop of the internal split moving the keys and leaving the
\* child ids
RECURSIVE InternalMoveUpper_KeysOnly(_, _, _, _, _)
InternalMoveUpper_KeysOnly(new_father_page, father_guard, i, change, off) ==
    IF i < GetSize(father_guard)
    THEN InternalMoveUpper_KeysOnly(
             SetKeyAt(new_father_page, i - change + off, KeyAt(father_guard, i)),
             father_guard, i + 1, change, off)
    ELSE new_father_page

\* the copy loop of the internal split writing from slot 0 in every case
RECURSIVE InternalMoveUpper_NoOffset(_, _, _, _, _)
InternalMoveUpper_NoOffset(new_father_page, father_guard, i, change, off) ==
    IF i < GetSize(father_guard)
    THEN InternalMoveUpper_NoOffset(
             SetValueAt(SetKeyAt(new_father_page, i - change, KeyAt(father_guard, i)),
                        i - change, ValueAt(father_guard, i)),
             father_guard, i + 1, change, off)
    ELSE new_father_page

\* for (i = change; i < father->GetSize(); ++i) new_father->Set..At(i - change + off, ...)
RECURSIVE InternalMoveUpper(_, _, _, _, _)
InternalMoveUpper(new_father_page, father_guard, i, change, off) ==
    IF i < GetSize(father_guard)
    THEN InternalMoveUpper(
             SetValueAt(SetKeyAt(new_father_page, i - change + off, KeyAt(father_guard, i)),
                        i - change + off, ValueAt(father_guard, i)),
             father_guard, i + 1, change, off)
    ELSE new_father_page

\* a new root that counts the old root as its only child
NewRoot_SizeOne(left_child, key, right_child) ==
    LET r1 == SetSize(InternalInit(ZeroPage, internal_max_size_), 1)
        r2 == SetKeyAt(r1, 1, key)
        r3 == SetValueAt(r2, 0, left_child)
    IN SetValueAt(r3, 1, right_child)

\* a new root whose two child ids both name the old root
NewRoot_SameChild(left_child, key, right_child) ==
    LET r1 == SetSize(InternalInit(ZeroPage, internal_max_size_), 2)
        r2 == SetKeyAt(r1, 1, key)
        r3 == SetValueAt(r2, 0, left_child)
    IN SetValueAt(r3, 1, left_child)

\* a new root with the separator written to slot 0
NewRoot_KeyAtZero(left_child, key, right_child) ==
    LET r1 == SetSize(InternalInit(ZeroPage, internal_max_size_), 2)
        r2 == SetKeyAt(r1, 0, key)
        r3 == SetValueAt(r2, 0, left_child)
    IN SetValueAt(r3, 1, right_child)

\* the page Insert_Up writes as the new root above the split root
NewRoot(left_child, key, right_child) ==
    LET r1 == SetSize(InternalInit(ZeroPage, internal_max_size_), 2)
        r2 == SetKeyAt(r1, 1, key)
        r3 == SetValueAt(r2, 0, left_child)
    IN SetValueAt(r3, 1, right_child)

\* NewPageGuarded providing no page: the call is abandoned with the tree as
\* it is at that point
AllocationFailed(pg, rt) ==
    [pages |-> pg, root_page_id_ |-> rt, fault |-> FALSE, branch |-> {"alloc_failed"},
     pops |-> 0]

\* Insert_Up on the tree (pg, rt) with the Context path: the tree it leaves;
\* fault is set when the header guard is used while path.header_page_ is empty,
\* branch collects the branches of Insert_Up the call went through, pops
\* counts its path.write_set_.pop_back() calls
RECURSIVE Insert_Up(_, _, _, _, _)
Insert_Up(pg, rt, path, key, right_child) ==
    IF Len(path.write_set_) = 1
    THEN \* the split page was the root: a new root above it
         IF PoolExhausted(pg) THEN AllocationFailed(pg, rt) ELSE
         LET new_root_id == NewPageId(pg)
             new_root == NewRoot(path.write_set_[1], key, right_child)
         IN [pages |-> [NewPageGuarded(pg) EXCEPT ![new_root_id] = new_root],
             root_page_id_ |-> new_root_id,
             fault |-> ~path.header_page_,
             branch |-> {"new_root"},
             pops |-> 0]
    ELSE
    LET father_id == path.write_set_[Len(path.write_set_) - 1]
        father_guard == pg[father_id]
    IN IF GetSize(father_guard) < GetMaxSize(father_guard)
       THEN \* the parent has room
            LET slot_num == BinaryFindInternal(father_guard, key)
                f1 == IncreaseSize(father_guard, 1)
                f2 == InternalShiftUp(f1, GetSize(f1) - 1, slot_num + 1)
                f3 == SetValueAt(SetKeyAt(f2, slot_num + 1, key), slot_num + 1, right_child)
            IN [pages |-> [pg EXCEPT ![father_id] = f3],
                root_page_id_ |-> rt,
                fault |-> FALSE,
                branch |-> {"room"},
                pops |-> 0]
       ELSE \* the parent splits
            IF PoolExhausted(pg) THEN AllocationFailed(pg, rt) ELSE
            LET new_father_id == NewPageId(pg)
                slot_num == BinaryFindInternal(father_guard, key) + 1
                change == GetMinSize(father_guard)
                new_size == GetMaxSize(father_guard) + 1 - change
                n1 == SetSize(InternalInit(ZeroPage, internal_max_size_), new_size)
                split ==
                    IF slot_num < change
                    THEN LET n2 == InternalMoveUpper(n1, father_guard, change, change, 1)
                             n3 == SetValueAt(SetKeyAt(n2, 0, KeyAt(father_guard, change - 1)),
                                              0, ValueAt(father_guard, change - 1))
                             g1 == InternalShiftUp(father_guard, change, slot_num)
                             g2 == SetValueAt(SetKeyAt(g1, slot_num, key), slot_num, right_child)
                         IN [father |-> g2, new_father |-> n3, branch |-> "left"]
                    ELSE IF slot_num = change
                    THEN LET n2 == InternalMoveUpper(n1, father_guard, change, change, 1)
                             n3 == SetValueAt(SetKeyAt(n2, 0, key), 0, right_child)
                         IN [father |-> father_guard, new_father |-> n3,
                             branch |-> "middle"]
                    ELSE LET n2 == InternalMoveUpper(n1, father_guard, change, change, 0)
                             s == slot_num - change
                             n3 == InternalShiftUp(n2, GetSize(n2), s)
                             n4 == SetValueAt(SetKeyAt(n3, s, key), s, right_child)
                         IN [father |-> father_guard, new_father |-> n4,
                             branch |-> "right"]
                father_page == SetSize(split.father, change)
                pg2 == [NewPageGuarded(pg) EXCEPT ![father_id] = father_page,
                                                  ![new_father_id] = split.new_father]
                popped == [path EXCEPT !.write_set_ = SubSeq(@, 1, Len(@) - 1)]
            IN [Insert_Up(pg2, rt, popped, KeyAt(split.new_father, 0), new_father_id)
                   EXCEPT !.branch = @ \cup {split.branch}, !.pops = @ + 1]

\* the leaf split without leaf_page->SetSize(leaf_page->GetMinSize())
SplitLeaf_NoTruncate(pg, rt, path, leaf_id, leaf_page) ==
    LET new_page == NewPageId(pg)
        n1 == LeafInit(ZeroPage, leaf_max_size_)
        n2 == SetSize(n1, GetSize(leaf_page) - GetMinSize(leaf_page))
        n3 == SetNextPageId(n2, GetNextPageId(leaf_page))
        l1 == SetNextPageId(leaf_page, new_page)
        new_leaf == LeafMoveUpper(n3, l1, GetMinSize(l1))
        up_key == KeyAt(new_leaf, 0)
        pg2 == [NewPageGuarded(pg) EXCEPT ![leaf_id] = l1, ![new_page] = new_leaf]
    IN Insert_Up(pg2, rt, path, up_key, new_page)

\* the leaf split without leaf_page->SetNextPageId(new_guard.PageId())
SplitLeaf_NoLink(pg, rt, path, leaf_id, leaf_page) ==
    LET new_page == NewPageId(pg)
        n1 == LeafInit(ZeroPage, leaf_max_size_)
        n2 == SetSize(n1, GetSize(leaf_page) - GetMinSize(leaf_page))
        n3 == SetNextPageId(n2, GetNextPageId(leaf_page))
        new_leaf == LeafMoveUpper(n3, leaf_page, GetMinSize(leaf_page))
        l2 == SetSize(leaf_page, GetMinSize(leaf_page))
        up_key == KeyAt(new_leaf, 0)
        pg2 == [NewPageGuarded(pg) EXCEPT ![leaf_id] = l2, ![new_page] = new_leaf]
    IN Insert_Up(pg2, rt, path, up_key, new_page)

\* the leaf split of Insert: leaf_id holds leaf_page (just filled)
SplitLeaf(pg, rt, path, leaf_id, leaf_page) ==
    LET new_page == NewPageId(pg)
        n1 == LeafInit(ZeroPage, leaf_max_size_)
        n2 == SetSize(n1, GetSize(leaf_page) - GetMinSize(leaf_page))
        n3 == SetNextPageId(n2, GetNextPageId(leaf_page))
        l1 == SetNextPageId(leaf_page, new_page)
        new_leaf == LeafMoveUpper(n3, l1, GetMinSize(l1))
        l2 == SetSize(l1, GetMinSize(l1))
        up_key == KeyAt(new_leaf, 0)
        pg2 == [NewPageGuarded(pg) EXCEPT ![leaf_id] = l2, ![new_page] = new_leaf]
    IN Insert_Up(pg2, rt, path, up_key, new_page)

\* the leaf split up to leaf_page->SetNextPageId(new_guard.PageId()): the new
\* leaf is initialised and linked behind leaf_id, its entries are not yet
\* written
SplitLeafLink(pg, leaf_id, leaf_page) ==
    LET new_page == NewPageId(pg)
        n1 == LeafInit(ZeroPage, leaf_max_size_)
        n2 == SetSize(n1, GetSize(leaf_page) - GetMinSize(leaf_page))
        n3 == SetNextPageId(n2, GetNextPageId(leaf_page))
        l1 == SetNextPageId(leaf_page, new_page)
    IN [NewPageGuarded(pg) EXCEPT ![leaf_id] = l1, ![new_page] = n3]

\* the leaf split from the copy loop on: the upper half moves to new_page,
\* the leaf is cut to its minimum size and Insert_Up is called
SplitLeafFill(pg, rt, path, leaf_id, new_page) ==
    LET l1 == pg[leaf_id]
        new_leaf == LeafMoveUpper(pg[new_page], l1, GetMinSize(l1))
        l2 == SetSize(l1, GetMinSize(l1))
        up_key == KeyAt(new_leaf, 0)
        pg2 == [pg EXCEPT ![leaf_id] = l2, ![new_page] = new_leaf]
    IN Insert_Up(pg2, rt, path, up_key, new_page)

\* an empty-tree Insert that fills the new leaf and leaves the header alone
StartNewTree_NoHeader(pg, key, value) ==
    LET id == NewPageId(pg)
        l1 == SetSize(LeafInit(ZeroPage, leaf_max_size_), 1)
        l2 == SetAt(l1, 0, key, value)
    IN [pages |-> [NewPageGuarded(pg) EXCEPT ![id] = l2],
        root_page_id_ |-> INVALID_PAGE_ID, ret |-> TRUE, fault |-> FALSE,
        branch |-> {"empty"}, pops |-> 0]

\* Insert on the empty tree: a new leaf becomes the root
StartNewTree(pg, key, value) ==
    LET id == NewPageId(pg)
        l1 == SetSize(LeafInit(ZeroPage, leaf_max_size_), 1)
        l2 == SetAt(l1, 0, key, value)
    IN [pages |-> [NewPageGuarded(pg) EXCEPT ![id] = l2],
        root_page_id_ |-> id, ret |-> TRUE, fault |-> FALSE, branch |-> {"empty"},
        pops |-> 0]

\* the entry written into the leaf after slot slot_num
LeafInsert(leaf_page, slot_num, key, value) ==
    LET l1 == IncreaseSize(leaf_page, 1)
        l2 == LeafShiftUp(l1, GetSize(l1), slot_num + 1)
    IN SetAt(l2, slot_num + 1, key, value)

\* Insert once the descent has latched the leaf, the last page of
\* path.write_set_
InsertAtLeaf(pg, rt, path, key, value) ==
    LET leaf_id == path.write_set_[Len(path.write_set_)]
        leaf_page == pg[leaf_id]
        slot_num == BinaryFindLeaf(leaf_page, key)
    IN IF slot_num # -1 /\ KeyAt(leaf_page, slot_num) = key
       THEN [pages |-> pg, root_page_id_ |-> rt, ret |-> FALSE, fault |-> FALSE,
             branch |-> {"duplicate"}, pops |-> 0]
       ELSE LET l3 == LeafInsert(leaf_page, slot_num, key, value)
            IN IF GetSize(l3) < GetMaxSize(l3)
               THEN [pages |-> [pg EXCEPT ![leaf_id] = l3],
                     root_page_id_ |-> rt, ret |-> TRUE, fault |-> FALSE,
                     branch |-> {"no_split"}, pops |-> 0]
               ELSE IF PoolExhausted(pg)
               THEN [ret |-> FALSE]
                        @@ AllocationFailed([pg EXCEPT ![leaf_id] = l3], rt)
               ELSE LET r == SplitLeaf(pg, rt, path, leaf_id, l3)
                    IN [ret |-> "alloc_failed" \notin r.branch] @@ r

\* Insert on the tree (pg, rt): [pages, root_page_id_, ret, fault, branch]
InsertOn(pg, rt, key, value) ==
    IF rt = INVALID_PAGE_ID
    THEN IF PoolExhausted(pg)
         THEN [ret |-> FALSE] @@ AllocationFailed(pg, rt)
         ELSE StartNewTree(pg, key, value)
    ELSE
    LET path0 == [header_page_ |-> ~Safe_Insert(pg[rt]),
                  root_page_id_ |-> rt,
                  write_set_ |-> <<rt>>]
    IN InsertAtLeaf(pg, rt, InsertDescend(pg, path0, key), key, value)

Insert(key, value) == InsertOn(pages, root_page_id_, key, value)

(* ------------------------------ remove -------------------------------- *)
\* a Remove that deletes the first entry of the leaf its descent reaches,
\* without comparing that entry's key with the key given
RECURSIVE RemoveShiftDown(_, _)
RemoveShiftDown(leaf_page, i) ==
    IF i < GetSize(leaf_page) - 1
    THEN RemoveShiftDown(SetAt(leaf_page, i, KeyAt(leaf_page, i + 1),
                               ValueAt(leaf_page, i + 1)), i + 1)
    ELSE leaf_page

RemoveOn_FirstSlot(pg, rt, key) ==
    IF rt = INVALID_PAGE_ID
    THEN [pages |-> pg, root_page_id_ |-> rt]
    ELSE LET leaf == GetValueDescend(pg, rt, key)
             shifted == RemoveShiftDown(pg[leaf], 0)
         IN [pages |-> [pg EXCEPT ![leaf] = IncreaseSize(shifted, -1)],
             root_page_id_ |-> rt]

\* Remove has an empty body: the tree it leaves is the tree it found
RemoveOn(pg, rt, key) == [pages |-> pg, root_page_id_ |-> rt]

Remove(key) == RemoveOn(pages, root_page_id_, key)

(* ----------------------------- iterators ------------------------------ *)
\* an iterator is the pair (page id, slot) it is constructed with
End == <<-1, -1>>

\* the descent of Begin() taking the last child of every internal page
RECURSIVE BeginDescend_Rightmost(_, _)
BeginDescend_Rightmost(pg, guard) ==
    IF IsLeafPage(pg[guard])
    THEN guard
    ELSE BeginDescend_Rightmost(pg, ValueAt(pg[guard], GetSize(pg[guard]) - 1))

\* the descent loop of Begin(): slot_num = 0 at every internal page
RECURSIVE BeginDescend(_, _)
BeginDescend(pg, guard) ==
    IF IsLeafPage(pg[guard])
    THEN guard
    ELSE BeginDescend(pg, ValueAt(pg[guard], 0))

BeginOn(pg, rt) ==
    IF rt = INVALID_PAGE_ID
    THEN End
    ELSE <<BeginDescend(pg, rt), 0>>

Begin == BeginOn(pages, root_page_id_)

\* the descent loop of Begin(key): the leaf reached, or INVALID_PAGE_ID when
\* BinaryFind on an internal page returned -1
RECURSIVE BeginKeyDescend(_, _, _)
BeginKeyDescend(pg, guard, key) ==
    IF IsLeafPage(pg[guard])
    THEN guard
    ELSE LET slot_num == BinaryFindInternal(pg[guard], key)
         IN IF slot_num = -1
            THEN INVALID_PAGE_ID
            ELSE BeginKeyDescend(pg, ValueAt(pg[guard], slot_num), key)

\* Begin(key) once the descent has latched the leaf guard
BeginKeyAtLeaf(pg, guard, key) ==
    LET slot_num == BinaryFindLeaf(pg[guard], key)
    IN IF slot_num # -1 THEN <<guard, slot_num>> ELSE End

BeginKeyOn(pg, rt, key) ==
    IF rt = INVALID_PAGE_ID
    THEN End
    ELSE LET guard == BeginKeyDescend(pg, rt, key)
         IN IF guard = INVALID_PAGE_ID
            THEN End
            ELSE BeginKeyAtLeaf(pg, guard, key)

BeginKey(key) == BeginKeyOn(pages, root_page_id_, key)

(* --------------------------- the operations --------------------------- *)
NoCall == [op |-> "new", key |-> 0, value |-> 0, ret |-> FALSE,
           arg |-> <<>>, result |-> <<>>, fault |-> FALSE, branch |-> {},
           pos |-> End]

\* the threads that call the tree, and a thread that has made no call
Threads == {1, 2}

Idle == [pc |-> "idle", op |-> "none", key |-> 0, value |-> 0,
         header_page_ |-> "none", write_set_ |-> <<>>, guard |-> INVALID_PAGE_ID,
         ret |-> FALSE, result |-> <<>>, pos |-> End, fault |-> FALSE,
         released |-> <<>>, new_page |-> INVALID_PAGE_ID]

NoSnap == [taken |-> FALSE, pages |-> <<>>, root_page_id_ |-> INVALID_PAGE_ID]

\* BPlusTree::BPlusTree
Init ==
    /\ root_page_id_ = INVALID_PAGE_ID
    /\ pages = <<>>
    /\ \E c \in Configs : leaf_max_size_ = c[1] /\ internal_max_size_ = c[2]
    /\ pool_size_ = PoolPages
    /\ last = NoCall
    /\ inserted = {}
    /\ live = {}
    /\ thr = [t \in Threads |-> Idle]
    /\ snap = NoSnap

DoInsert(key, value) ==
    \E r \in {Insert(key, value)} :
       /\ pages' = r.pages
       /\ root_page_id_' = r.root_page_id_
       /\ last' = [NoCall EXCEPT !.op = "Insert", !.key = key, !.value = value,
                                 !.ret = r.ret, !.fault = r.fault,
                                 !.branch = r.branch]
       /\ inserted' = IF r.ret THEN inserted \cup {<<key, value>>} ELSE inserted
       /\ live' = IF r.ret THEN live \cup {key} ELSE live
       /\ UNCHANGED <<leaf_max_size_, internal_max_size_, pool_size_, thr, snap>>

DoRemove(key) ==
    \E r \in {Remove(key)} :
       /\ pages' = r.pages
       /\ root_page_id_' = r.root_page_id_
       /\ last' = [NoCall EXCEPT !.op = "Remove", !.key = key]
       /\ live' = live \ {key}
       /\ UNCHANGED <<leaf_max_size_, internal_max_size_, pool_size_, inserted, thr, snap>>

\* a read that writes the header as the constructor does
ReadOnly_ResetRoot(pg, rt) == [pages |-> pg, root_page_id_ |-> INVALID_PAGE_ID]

\* GetValue, IsEmpty, GetRootPageId, Begin, Begin(key) and End reach the
\* header and the pages through ReadPageGuard::As alone, or not at all: the
\* tree they leave is the tree they found
ReadOnly(pg, rt) == [pages |-> pg, root_page_id_ |-> rt]

DoGetValue(key, result) ==
    \E r \in {GetValue(key, result)} :
       /\ last' = [NoCall EXCEPT !.op = "GetValue", !.key = key, !.ret = r.ret,
                                 !.arg = result, !.result = r.result]
       /\ pages' = ReadOnly(pages, root_page_id_).pages
       /\ root_page_id_' = ReadOnly(pages, root_page_id_).root_page_id_
       /\ UNCHANGED <<leaf_max_size_, internal_max_size_, pool_size_,
                      inserted, live, thr, snap>>

DoIsEmpty ==
    /\ last' = [NoCall EXCEPT !.op = "IsEmpty", !.ret = IsEmpty]
    /\ pages' = ReadOnly(pages, root_page_id_).pages
    /\ root_page_id_' = ReadOnly(pages, root_page_id_).root_page_id_
    /\ UNCHANGED <<leaf_max_size_, internal_max_size_, pool_size_,
                   inserted, live, thr, snap>>

Next ==
    \/ \E key \in Keys, value \in Vals : DoInsert(key, value)
    \/ \E key \in RemKeys : DoRemove(key)
    \/ \E key \in Keys, result \in ResultInputs : DoGetValue(key, result)
    \/ DoIsEmpty

Spec == Init /\ [][Next]_vars

DoBegin ==
    /\ last' = [NoCall EXCEPT !.op = "Begin", !.pos = Begin]
    /\ pages' = ReadOnly(pages, root_page_id_).pages
    /\ root_page_id_' = ReadOnly(pages, root_page_id_).root_page_id_
    /\ UNCHANGED <<leaf_max_size_, internal_max_size_, pool_size_,
                   inserted, live, thr, snap>>

DoBeginKey(key) ==
    /\ last' = [NoCall EXCEPT !.op = "BeginKey", !.key = key, !.pos = BeginKey(key)]
    /\ pages' = ReadOnly(pages, root_page_id_).pages
    /\ root_page_id_' = ReadOnly(pages, root_page_id_).root_page_id_
    /\ UNCHANGED <<leaf_max_size_, internal_max_size_, pool_size_,
                   inserted, live, thr, snap>>

DoGetRootPageId ==
    /\ last' = [NoCall EXCEPT !.op = "GetRootPageId", !.result = <<GetRootPageId>>]
    /\ pages' = ReadOnly(pages, root_page_id_).pages
    /\ root_page_id_' = ReadOnly(pages, root_page_id_).root_page_id_
    /\ UNCHANGED <<leaf_max_size_, internal_max_size_, pool_size_,
                   inserted, live, thr, snap>>

DoEnd ==
    /\ last' = [NoCall EXCEPT !.op = "End", !.pos = End]
    /\ pages' = ReadOnly(pages, root_page_id_).pages
    /\ root_page_id_' = ReadOnly(pages, root_page_id_).root_page_id_
    /\ UNCHANGED <<leaf_max_size_, internal_max_size_, pool_size_,
                   inserted, live, thr, snap>>

\* the tree under Insert and every operation that only reads it
NextRead ==
    \/ \E key \in Keys : DoInsert(key, key)
    \/ \E key \in Keys : DoGetValue(key, <<>>)
    \/ DoIsEmpty
    \/ DoGetRootPageId
    \/ DoBegin
    \/ \E key \in Keys : DoBeginKey(key)
    \/ DoEnd

SpecRead == Init /\ [][NextRead]_vars

\* the tree under Insert and the two Begin overloads
NextIter ==
    \/ \E key \in Keys, value \in Vals : DoInsert(key, value)
    \/ DoBegin
    \/ \E key \in Keys : DoBeginKey(key)

SpecIter == Init /\ [][NextIter]_vars

\* the tree grown by Insert alone, on the keys of GrowKeys; the record id
\* stored with a key is the key's number
NextGrow == \E key \in GrowKeys : DoInsert(key, key)

SpecGrow == Init /\ [][NextGrow]_vars

\* the same Inserts with a buffer pool of at most MaxPool pages: the pool
\* runs out at the leaf split, at the new root or at the internal split.
InitPool ==
    /\ root_page_id_ = INVALID_PAGE_ID
    /\ pages = <<>>
    /\ \E c \in Configs : leaf_max_size_ = c[1] /\ internal_max_size_ = c[2]
    /\ pool_size_ \in 1..MaxPool
    /\ last = NoCall
    /\ inserted = {}
    /\ live = {}
    /\ thr = [t \in Threads |-> Idle]
    /\ snap = NoSnap

\* the calls are followed up to the first Insert the pool fails
NextPool ==
    /\ "alloc_failed" \notin last.branch
    /\ \E key \in GrowKeys : DoInsert(key, key)

SpecPool == InitPool /\ [][NextPool]_vars

\* the keys of the tree drawn above BPlusTree::Draw, in the order given
S1Keys == <<1, 5, 9, 13, 17, 21, 25, 29, 33, 37, 18, 19, 20>>

\* the next Insert of that sequence, the record id being the key's number
DoS1Insert ==
    /\ Cardinality(inserted) < Len(S1Keys)
    /\ DoInsert(S1Keys[Cardinality(inserted) + 1], S1Keys[Cardinality(inserted) + 1])

\* the sequence inserted in order, with lookups of its keys in between
NextS1 ==
    \/ DoS1Insert
    \/ \E i \in DOMAIN S1Keys : DoGetValue(S1Keys[i], <<>>)

SpecS1 == Init /\ [][NextS1]_vars

(* ---------------------- BinaryFind on one page ------------------------ *)
\* the internal pages BinaryFind may be given under max_size max: size 1 and
\* up, the keys of slots 1..size-1 ascending, any key left in slot 0, child
\* i + 1 in slot i
FindPages(max) ==
    {[InternalInit(ZeroPage, max) EXCEPT
         !.size = n,
         !.key = [i \in Slots |-> IF i = 0 THEN k0
                                  ELSE IF i < n THEN k[i] ELSE 0],
         !.value = [i \in Slots |-> IF i < n THEN i + 1 ELSE 0]] :
        <<n, k0, k>> \in
            {t \in (1..max) \X (0..MaxKey) \X [1..(SlotCap - 1) -> Keys \cup {0}] :
                /\ \A i \in 1..(SlotCap - 1) : (i < t[1]) <=> (t[3][i] # 0)
                /\ \A i, j \in 1..(t[1] - 1) : i < j => t[3][i] < t[3][j]}}

\* a tree object and one internal page of its buffer pool
InitFind ==
    /\ root_page_id_ = INVALID_PAGE_ID
    /\ \E c \in Configs :
          /\ leaf_max_size_ = c[1] /\ internal_max_size_ = c[2]
          /\ pool_size_ = PoolPages
          /\ \E p \in FindPages(c[2]) : pages = <<p>>
    /\ last = NoCall
    /\ inserted = {}
    /\ live = {}
    /\ thr = [t \in Threads |-> Idle]
    /\ snap = NoSnap

\* BinaryFind(internal_page, key) on page 1; pos records <<page, slot>>
DoBinaryFind(key) ==
    /\ last' = [NoCall EXCEPT !.op = "BinaryFind", !.key = key,
                              !.pos = <<1, BinaryFindInternal(pages[1], key)>>]
    /\ UNCHANGED <<root_page_id_, pages, leaf_max_size_, internal_max_size_, pool_size_,
                   inserted, live, thr, snap>>

NextFind == \E key \in Keys : DoBinaryFind(key)

SpecFind == InitFind /\ [][NextFind]_vars

\* the leaf pages BinaryFind may be given under max_size max: size 0 and up,
\* the keys of slots 0..size-1 ascending, record id i + 1 in slot i
FindLeaves(max) ==
    {[LeafInit(ZeroPage, max) EXCEPT
         !.size = Cardinality(K),
         !.key = [i \in Slots |->
                     IF i < Cardinality(K)
                     THEN CHOOSE k \in K : Cardinality({j \in K : j < k}) = i
                     ELSE 0],
         !.value = [i \in Slots |-> IF i < Cardinality(K) THEN i + 1 ELSE 0]] :
        K \in {L \in SUBSET Keys : Cardinality(L) <= max}}

\* a tree object and one leaf page of its buffer pool
InitFindLeaf ==
    /\ root_page_id_ = INVALID_PAGE_ID
    /\ \E c \in Configs :
          /\ leaf_max_size_ = c[1] /\ internal_max_size_ = c[2]
          /\ pool_size_ = PoolPages
          /\ \E p \in FindLeaves(c[1]) : pages = <<p>>
    /\ last = NoCall
    /\ inserted = {}
    /\ live = {}
    /\ thr = [t \in Threads |-> Idle]
    /\ snap = NoSnap

\* BinaryFind(leaf_page, key) on page 1; pos records <<page, slot>>
DoBinaryFindLeaf(key) ==
    /\ last' = [NoCall EXCEPT !.op = "BinaryFindLeaf", !.key = key,
                              !.pos = <<1, BinaryFindLeaf(pages[1], key)>>]
    /\ UNCHANGED <<root_page_id_, pages, leaf_max_size_, internal_max_size_, pool_size_,
                   inserted, live, thr, snap>>

NextFindLeaf == \E key \in Keys : DoBinaryFindLeaf(key)

SpecFindLeaf == InitFindLeaf /\ [][NextFindLeaf]_vars

(* ------------------------- concurrent callers ------------------------- *)
\* Calls of several threads on one tree. A thread step is one latch
\* acquisition with the code that follows it up to the next acquisition, or
\* the work done on the latched pages up to the return. The latches held are
\* those of the guards a thread owns: header_page_ ("none", "read", "write"),
\* the write guards of write_set_ and the read guard guard.
Readers == {"GetValue", "Begin", "BeginKey"}

\* the calls thread t may make with keys of K; the value a thread inserts is
\* its number
CallsOn(t, K) ==
    {[op |-> "Insert", key |-> k, value |-> t] : k \in K}
        \cup {[op |-> "Remove", key |-> k, value |-> 0] : k \in RemKeys}
        \cup {[op |-> o, key |-> k, value |-> 0] : o \in {"GetValue", "BeginKey"}, k \in K}
        \cup {[op |-> o, key |-> 0, value |-> 0] : o \in {"Begin", "IsEmpty", "GetRootPageId"}}

HoldsWrite(s, id) ==
    IF id = header_page_id_
    THEN s.header_page_ = "write"
    ELSE \E i \in 1..Len(s.write_set_) : s.write_set_[i] = id

HoldsRead(s, id) ==
    IF id = header_page_id_
    THEN s.header_page_ = "read"
    ELSE s.guard = id

\* a write latch that is granted although another thread holds the latch
CanWLatch_Shared(t, id) == TRUE

\* Page::WLatch returns at once: no other thread holds the page's latch
CanWLatch(t, id) ==
    \A u \in Threads \ {t} : ~HoldsWrite(thr[u], id) /\ ~HoldsRead(thr[u], id)

\* Page::RLatch returns at once: no other thread holds the page's write latch
CanRLatch(t, id) ==
    \A u \in Threads \ {t} : ~HoldsWrite(thr[u], id)

\* a Context destroyed without its header guard being released
ContextDestroy_KeepHeader(s) == [s EXCEPT !.write_set_ = <<>>]

\* the latch of the header guard, if s owns that guard
HeaderHeld(s) == IF s.header_page_ = "none" THEN <<>> ELSE <<header_page_id_>>

Reverse(q) == [i \in 1..Len(q) |-> q[Len(q) + 1 - i]]

\* ~Context at the return of Insert: the members are destroyed in the reverse
\* order of their declaration, write_set_ before header_page_; released
\* records the latches in the order they are released, here with the deque
\* destroying its elements from front to back
ContextDestroy(s) ==
    [s EXCEPT !.header_page_ = "none", !.write_set_ = <<>>,
              !.released = s.released \o s.write_set_ \o HeaderHeld(s)]

\* the same with the deque destroying its elements from back to front
ContextDestroyBack(s) ==
    [s EXCEPT !.header_page_ = "none", !.write_set_ = <<>>,
              !.released = s.released \o Reverse(s.write_set_) \o HeaderHeld(s)]

\* the order in which a deque destroys its elements is the library's choice
Destroyed(s) == {ContextDestroy(s), ContextDestroyBack(s)}

\* path.write_set_.pop_back(), n times: the guards of the deepest pages are
\* destroyed, the deepest first
PopBack(s, n) ==
    [s EXCEPT !.write_set_ = SubSeq(@, 1, Len(@) - n),
              !.released = s.released
                               \o Reverse(SubSeq(s.write_set_, Len(s.write_set_) - n + 1,
                                                  Len(s.write_set_)))]

\* Context::clear: header_page_ = nullopt, then write_set_.pop_front() until
\* the deque is empty
clear(s) ==
    [s EXCEPT !.header_page_ = "none", !.write_set_ = <<>>,
              !.released = s.released \o HeaderHeld(s) \o s.write_set_]

\* a return that leaves the read latch of the page last visited
DropGuards_KeepPage(s) == [s EXCEPT !.header_page_ = "none"]

\* the read guards head_guard and guard destroyed at a return
DropGuards(s) == [s EXCEPT !.header_page_ = "none", !.guard = INVALID_PAGE_ID]

\* a reader that keeps the header guard after the root is latched
HeadGuardDrop_Skip(s) == s

\* head_guard.Drop() of GetValue, Begin and Begin(key)
HeadGuardDrop(s) == [s EXCEPT !.header_page_ = "none"]

\* a descent that reads the next child from the first page of write_set_
CurrentPage_Front(s) ==
    IF s.op = "Insert" THEN s.write_set_[1] ELSE s.guard

\* the page a descending thread holds last, and the child it goes to next
CurrentPage(s) ==
    IF s.op = "Insert" THEN s.write_set_[Len(s.write_set_)] ELSE s.guard

SlotOf(s, page) ==
    IF s.op = "Begin" THEN 0 ELSE BinaryFindInternal(page, s.key)

\* a sequential Insert before any thread has called: the tree the threads find
Load(key) ==
    /\ ~snap.taken
    /\ \E r \in {InsertOn(pages, root_page_id_, key, 1)} :
          /\ pages' = r.pages
          /\ root_page_id_' = r.root_page_id_
    /\ UNCHANGED <<leaf_max_size_, internal_max_size_, pool_size_, last, inserted, live, thr, snap>>

\* thread t calls; threads are numbered in the order of their calls
Call(t, c) ==
    /\ thr[t].pc = "idle"
    /\ \A u \in Threads : u < t => thr[u].pc # "idle"
    /\ thr' = [thr EXCEPT ![t] = [Idle EXCEPT !.pc = "entry", !.op = c.op,
                                              !.key = c.key, !.value = c.value]]
    /\ snap' = IF snap.taken
               THEN snap
               ELSE [taken |-> TRUE, pages |-> pages, root_page_id_ |-> root_page_id_]
    /\ UNCHANGED <<root_page_id_, pages, leaf_max_size_, internal_max_size_, pool_size_,
                   last, inserted, live>>

\* Remove: its body, which takes no latch
RemoveBody(t) ==
    /\ thr[t].pc = "entry" /\ thr[t].op = "Remove"
    /\ \E r \in {Remove(thr[t].key)} :
          /\ pages' = r.pages
          /\ root_page_id_' = r.root_page_id_
    /\ thr' = [thr EXCEPT ![t].pc = "done"]
    /\ UNCHANGED <<leaf_max_size_, internal_max_size_, pool_size_, last, inserted, live, snap>>

\* FetchPageWrite(header_page_id_) of Insert, FetchPageRead(header_page_id_)
\* of the other operations
LatchHeader(t) ==
    /\ thr[t].pc = "entry" /\ thr[t].op # "Remove"
    /\ IF thr[t].op = "Insert"
       THEN CanWLatch(t, header_page_id_)
       ELSE CanRLatch(t, header_page_id_)
    /\ thr' = [thr EXCEPT ![t].pc = "header",
                          ![t].header_page_ = IF thr[t].op = "Insert"
                                              THEN "write" ELSE "read"]
    /\ UNCHANGED <<root_page_id_, pages, leaf_max_size_, internal_max_size_, pool_size_,
                   last, inserted, live, snap>>

\* IsEmpty and GetRootPageId: read the header and return
ReadHeader(t) ==
    /\ thr[t].pc = "header" /\ thr[t].op \in {"IsEmpty", "GetRootPageId"}
    /\ thr' = [thr EXCEPT ![t] =
                  DropGuards([thr[t] EXCEPT
                                 !.pc = "done",
                                 !.ret = IF thr[t].op = "IsEmpty" THEN IsEmpty ELSE FALSE,
                                 !.result = IF thr[t].op = "IsEmpty"
                                            THEN <<>> ELSE <<GetRootPageId>>])]
    /\ UNCHANGED <<root_page_id_, pages, leaf_max_size_, internal_max_size_, pool_size_,
                   last, inserted, live, snap>>

\* Insert finding the tree empty
InsertEmpty(t) ==
    /\ thr[t].pc = "header" /\ thr[t].op = "Insert"
    /\ root_page_id_ = INVALID_PAGE_ID
    /\ \E r \in {IF PoolExhausted(pages)
                THEN [ret |-> FALSE] @@ AllocationFailed(pages, root_page_id_)
                ELSE StartNewTree(pages, thr[t].key, thr[t].value)} :
          /\ pages' = r.pages
          /\ root_page_id_' = r.root_page_id_
          /\ \E d \in Destroyed([thr[t] EXCEPT !.pc = "done", !.ret = r.ret,
                                                !.header_page_ = "none",
                                                !.released = <<header_page_id_>>]) :
                thr' = [thr EXCEPT ![t] = d]
    /\ UNCHANGED <<leaf_max_size_, internal_max_size_, pool_size_, last, inserted, live, snap>>

\* GetValue, Begin and Begin(key) finding the tree empty
ReadEmpty(t) ==
    /\ thr[t].pc = "header" /\ thr[t].op \in Readers
    /\ root_page_id_ = INVALID_PAGE_ID
    /\ thr' = [thr EXCEPT ![t] = DropGuards([@ EXCEPT !.pc = "done", !.pos = End])]
    /\ UNCHANGED <<root_page_id_, pages, leaf_max_size_, internal_max_size_, pool_size_,
                   last, inserted, live, snap>>

\* the root latched under the header latch; Insert keeps the header latch
\* unless the root is safe, the readers drop it
LatchRoot(t) ==
    /\ thr[t].pc = "header" /\ thr[t].op \in Readers \cup {"Insert"}
    /\ root_page_id_ # INVALID_PAGE_ID
    /\ IF thr[t].op = "Insert"
       THEN /\ CanWLatch(t, root_page_id_)
            /\ thr' = [thr EXCEPT
                          ![t].write_set_ = <<root_page_id_>>,
                          ![t].header_page_ = IF Safe_Insert(pages[root_page_id_])
                                              THEN "none" ELSE "write",
                          ![t].pc = IF IsLeafPage(pages[root_page_id_])
                                    THEN "leaf" ELSE "descend"]
       ELSE /\ CanRLatch(t, root_page_id_)
            /\ thr' = [thr EXCEPT ![t] =
                          HeadGuardDrop(
                              [@ EXCEPT !.guard = root_page_id_,
                                        !.pc = IF IsLeafPage(pages[root_page_id_])
                                               THEN "leaf" ELSE "descend"])]
    /\ UNCHANGED <<root_page_id_, pages, leaf_max_size_, internal_max_size_, pool_size_,
                   last, inserted, live, snap>>

\* one pass of a descent loop: the child is latched while its parent is
\* held; Insert then keeps or unlatches the ancestors, a reader's guard
\* moves to the child
LatchChild(t) ==
    /\ thr[t].pc = "descend"
    /\ LET s == thr[t]
           page == pages[CurrentPage(s)]
           slot_num == SlotOf(s, page)
           next == ValueAt(page, slot_num)
       IN IF s.op # "Insert" /\ slot_num = -1
          THEN thr' = [thr EXCEPT ![t] = DropGuards([s EXCEPT !.pc = "done"])]
          ELSE IF s.op = "Insert"
          THEN /\ CanWLatch(t, next)
               /\ thr' = [thr EXCEPT
                             ![t].write_set_ = Crab(pages, s.write_set_, next),
                             ![t].pc = IF IsLeafPage(pages[next])
                                       THEN "leaf" ELSE "descend"]
          ELSE /\ CanRLatch(t, next)
               /\ thr' = [thr EXCEPT
                             ![t].guard = next,
                             ![t].pc = IF IsLeafPage(pages[next])
                                       THEN "leaf" ELSE "descend"]
    /\ UNCHANGED <<root_page_id_, pages, leaf_max_size_, internal_max_size_, pool_size_,
                   last, inserted, live, snap>>

\* Insert at the latched leaf, through the splits, to its return
InsertLeaf(t) ==
    /\ thr[t].pc = "leaf" /\ thr[t].op = "Insert"
    /\ LET s == thr[t]
           path == [header_page_ |-> s.header_page_ = "write",
                    root_page_id_ |-> s.write_set_[1],
                    write_set_ |-> s.write_set_]
       IN \E r \in {InsertAtLeaf(pages, root_page_id_, path, s.key, s.value)} :
             /\ pages' = r.pages
             /\ root_page_id_' = r.root_page_id_
             /\ LET d == PopBack([s EXCEPT !.pc = "done", !.ret = r.ret,
                                                !.fault = r.fault], r.pops)
                IN \E e \in Destroyed(IF "duplicate" \in r.branch THEN clear(d) ELSE d) :
                      thr' = [thr EXCEPT ![t] = e]
    /\ UNCHANGED <<leaf_max_size_, internal_max_size_, pool_size_, last, inserted, live, snap>>

\* the leaf split followed in two steps. An Insert at the latched leaf that
\* needs no split runs to its return; one that splits the leaf writes the
\* entry, allocates the new leaf and links it behind the leaf
SplitsLeaf(t) ==
    LET s == thr[t]
        leaf_page == pages[s.write_set_[Len(s.write_set_)]]
        slot_num == BinaryFindLeaf(leaf_page, s.key)
    IN /\ ~(slot_num # -1 /\ KeyAt(leaf_page, slot_num) = s.key)
       /\ GetSize(leaf_page) + 1 >= GetMaxSize(leaf_page)
       /\ ~PoolExhausted(pages)

\* the thread once the new leaf is linked: it holds what it held
AfterLink_DropLeaf(s, new_page) ==
    [s EXCEPT !.pc = "split", !.new_page = new_page,
              !.write_set_ = SubSeq(@, 1, Len(@) - 1)]

AfterLink(s, new_page) == [s EXCEPT !.pc = "split", !.new_page = new_page]

InsertLeafLink(t) ==
    /\ thr[t].pc = "leaf" /\ thr[t].op = "Insert"
    /\ IF ~SplitsLeaf(t)
       THEN InsertLeaf(t)
       ELSE LET s == thr[t]
                leaf_id == s.write_set_[Len(s.write_set_)]
                leaf_page == pages[leaf_id]
                l3 == LeafInsert(leaf_page, BinaryFindLeaf(leaf_page, s.key),
                                 s.key, s.value)
            IN /\ pages' = SplitLeafLink(pages, leaf_id, l3)
               /\ thr' = [thr EXCEPT ![t] = AfterLink(s, NewPageId(pages))]
               /\ UNCHANGED <<root_page_id_, leaf_max_size_, internal_max_size_,
                              pool_size_, last, inserted, live, snap>>

\* the rest of the split, to the return of Insert
InsertLeafFill(t) ==
    /\ thr[t].pc = "split"
    /\ LET s == thr[t]
           path == [header_page_ |-> s.header_page_ = "write",
                    root_page_id_ |-> s.write_set_[1],
                    write_set_ |-> s.write_set_]
           leaf_id == s.write_set_[Len(s.write_set_)]
       IN \E r \in {SplitLeafFill(pages, root_page_id_, path, leaf_id, s.new_page)} :
             /\ pages' = r.pages
             /\ root_page_id_' = r.root_page_id_
             /\ LET d == PopBack([s EXCEPT !.pc = "done",
                                           !.ret = "alloc_failed" \notin r.branch,
                                           !.fault = r.fault], r.pops)
                IN \E e \in Destroyed(d) : thr' = [thr EXCEPT ![t] = e]
    /\ UNCHANGED <<leaf_max_size_, internal_max_size_, pool_size_, last, inserted, live, snap>>

\* GetValue, Begin and Begin(key) at the latched leaf, to their return
ReadLeaf(t) ==
    /\ thr[t].pc = "leaf" /\ thr[t].op \in Readers
    /\ LET s == thr[t]
           found == GetValueAtLeaf(pages[s.guard], s.key, <<>>)
           d == IF s.op = "GetValue"
                THEN [s EXCEPT !.ret = found.ret, !.result = found.result]
                ELSE IF s.op = "Begin"
                THEN [s EXCEPT !.pos = <<s.guard, 0>>]
                ELSE [s EXCEPT !.pos = BeginKeyAtLeaf(pages, s.guard, s.key)]
       IN thr' = [thr EXCEPT ![t] = DropGuards([d EXCEPT !.pc = "done"])]
    /\ UNCHANGED <<root_page_id_, pages, leaf_max_size_, internal_max_size_, pool_size_,
                   last, inserted, live, snap>>

ThreadStep(t) ==
    \/ RemoveBody(t)
    \/ LatchHeader(t)
    \/ ReadHeader(t)
    \/ InsertEmpty(t)
    \/ ReadEmpty(t)
    \/ LatchRoot(t)
    \/ LatchChild(t)
    \/ InsertLeaf(t)
    \/ ReadLeaf(t)

NextConc ==
    \/ \E key \in Keys : Load(key)
    \/ \E t \in Threads : \E c \in CallsOn(t, Keys) : Call(t, c)
    \/ \E t \in Threads : RemoveBody(t)
    \/ \E t \in Threads : LatchHeader(t)
    \/ \E t \in Threads : ReadHeader(t)
    \/ \E t \in Threads : InsertEmpty(t)
    \/ \E t \in Threads : ReadEmpty(t)
    \/ \E t \in Threads : LatchRoot(t)
    \/ \E t \in Threads : LatchChild(t)
    \/ \E t \in Threads : InsertLeaf(t)
    \/ \E t \in Threads : ReadLeaf(t)

SpecConc == Init /\ [][NextConc]_vars

\* the same threads with the leaf split taken in two steps
NextSplit ==
    \/ \E key \in Keys : Load(key)
    \/ \E t \in Threads : \E c \in CallsOn(t, Keys) : Call(t, c)
    \/ \E t \in Threads : RemoveBody(t)
    \/ \E t \in Threads : LatchHeader(t)
    \/ \E t \in Threads : ReadHeader(t)
    \/ \E t \in Threads : InsertEmpty(t)
    \/ \E t \in Threads : ReadEmpty(t)
    \/ \E t \in Threads : LatchRoot(t)
    \/ \E t \in Threads : LatchChild(t)
    \/ \E t \in Threads : InsertLeafLink(t)
    \/ \E t \in Threads : InsertLeafFill(t)
    \/ \E t \in Threads : ReadLeaf(t)

SpecSplit == Init /\ [][NextSplit]_vars

\* the same threads on the keys of FairKeys, scheduled fairly: a thread that
\* can take a step does not wait for ever
NextFair ==
    \/ \E key \in FairKeys : Load(key)
    \/ \E t \in Threads : \E c \in CallsOn(t, FairKeys) : Call(t, c)
    \/ \E t \in Threads : RemoveBody(t)
    \/ \E t \in Threads : LatchHeader(t)
    \/ \E t \in Threads : ReadHeader(t)
    \/ \E t \in Threads : InsertEmpty(t)
    \/ \E t \in Threads : ReadEmpty(t)
    \/ \E t \in Threads : LatchRoot(t)
    \/ \E t \in Threads : LatchChild(t)
    \/ \E t \in Threads : InsertLeaf(t)
    \/ \E t \in Threads : ReadLeaf(t)

SpecConcFair ==
    Init /\ [][NextFair]_vars /\ \A t \in Threads : WF_vars(ThreadStep(t))

\* one thread's calls followed latch by latch, on the keys of PathKeys
NextPath ==
    \/ \E key \in PathKeys : Load(key)
    \/ \E c \in CallsOn(1, PathKeys) : Call(1, c)
    \/ RemoveBody(1)
    \/ LatchHeader(1)
    \/ ReadHeader(1)
    \/ InsertEmpty(1)
    \/ ReadEmpty(1)
    \/ LatchRoot(1)
    \/ LatchChild(1)
    \/ InsertLeaf(1)
    \/ ReadLeaf(1)

SpecPath == Init /\ [][NextPath]_vars

(* ------------------------ what the tree contains ---------------------- *)
\* ids of the pages under page id (d bounds the depth: a tree of n pages is
\* no deeper than n)
RECURSIVE PagesUnder(_, _, _)
PagesUnder(pg, id, d) ==
    IF id \notin DOMAIN pg \/ d = 0
    THEN {}
    ELSE IF IsLeafPage(pg[id])
    THEN {id}
    ELSE {id} \cup UNION {PagesUnder(pg, ValueAt(pg[id], i), d - 1) :
                              i \in 0..(GetSize(pg[id]) - 1)}

TreePagesOn(pg, rt) == IF rt = INVALID_PAGE_ID THEN {} ELSE PagesUnder(pg, rt, Len(pg))
TreePages == TreePagesOn(pages, root_page_id_)

\* the (key, value) pairs stored in the leaves under page id
EntriesUnder(pg, id) ==
    UNION {{<<KeyAt(pg[l], i), ValueAt(pg[l], i)>> : i \in 0..(GetSize(pg[l]) - 1)} :
               l \in {p \in PagesUnder(pg, id, Len(pg)) : IsLeafPage(pg[p])}}
KeysUnder(pg, id) == {e[1] : e \in EntriesUnder(pg, id)}

TreeEntries == IF root_page_id_ = INVALID_PAGE_ID THEN {} ELSE EntriesUnder(pages, root_page_id_)
TreeKeys == {e[1] : e \in TreeEntries}

Hit(v) == [ret |-> TRUE, result |-> <<v>>]
Miss == [ret |-> FALSE, result |-> <<>>]
InternalSplit == {"left", "middle", "right"}

\* the leaf reached from page id by taking child 0 at every internal page
RECURSIVE LeftmostLeaf(_, _, _)
LeftmostLeaf(pg, id, d) ==
    IF id \notin DOMAIN pg \/ d = 0
    THEN INVALID_PAGE_ID
    ELSE IF IsLeafPage(pg[id])
    THEN id
    ELSE LeftmostLeaf(pg, ValueAt(pg[id], 0), d - 1)

\* the page ids met from page id on by following next_page_id_, at most d
RECURSIVE LeafChain(_, _, _)
LeafChain(pg, id, d) ==
    IF id \notin DOMAIN pg \/ d = 0
    THEN <<>>
    ELSE <<id>> \o LeafChain(pg, GetNextPageId(pg[id]), d - 1)

TreeChain ==
    LeafChain(pages, LeftmostLeaf(pages, root_page_id_, Len(pages)), Len(pages) + 1)

\* the keys of slots 0..size-1 of the pages of chain, in order
RECURSIVE ChainKeys(_, _)
ChainKeys(pg, chain) ==
    IF chain = <<>>
    THEN <<>>
    ELSE [i \in 1..GetSize(pg[Head(chain)]) |-> KeyAt(pg[Head(chain)], i - 1)]
             \o ChainKeys(pg, Tail(chain))

TreeLeaves == {id \in TreePages : IsLeafPage(pages[id])}

SetMax(S) == IF S = {} THEN 0 ELSE CHOOSE x \in S : \A y \in S : y <= x
SetMin(S) == CHOOSE x \in S : \A y \in S : x <= y

\* the number of levels under page id, the page itself included
RECURSIVE Height(_, _, _)
Height(pg, id, d) ==
    IF id \notin DOMAIN pg \/ d = 0
    THEN 0
    ELSE IF IsLeafPage(pg[id])
    THEN 1
    ELSE 1 + SetMax({Height(pg, ValueAt(pg[id], i), d - 1) :
                        i \in 0..(GetSize(pg[id]) - 1)})

EntriesOn(pg, rt) == IF rt = INVALID_PAGE_ID THEN {} ELSE EntriesUnder(pg, rt)

(* ------------------------ the threads' calls -------------------------- *)
Running(t) == thr[t].pc \notin {"idle", "done"}
AllDone == \A t \in Threads : thr[t].pc = "done"
HeldBy(s) ==
    (IF s.header_page_ = "none" THEN {} ELSE {header_page_id_})
        \cup {s.write_set_[i] : i \in 1..Len(s.write_set_)}
        \cup (IF s.guard = INVALID_PAGE_ID THEN {} ELSE {s.guard})

\* thread t is at a latch acquisition that cannot be granted now
Blocked(t) ==
    LET s == thr[t]
        CanLatch(id) == IF s.op = "Insert" THEN CanWLatch(t, id) ELSE CanRLatch(t, id)
    IN IF s.pc = "entry" /\ s.op # "Remove"
       THEN ~CanLatch(header_page_id_)
       ELSE IF s.pc = "header" /\ s.op \in Readers \cup {"Insert"}
                               /\ root_page_id_ # INVALID_PAGE_ID
       THEN ~CanLatch(root_page_id_)
       ELSE IF s.pc = "descend" /\ SlotOf(s, pages[CurrentPage(s)]) # -1
       THEN ~CanLatch(ValueAt(pages[CurrentPage(s)], SlotOf(s, pages[CurrentPage(s)])))
       ELSE FALSE

\* what the call recorded in s returns, and the tree it leaves, when it runs
\* alone on the tree (pg, rt)
SeqCall(pg, rt, s) ==
    LET same == [pages |-> pg, root_page_id_ |-> rt]
        none == [ret |-> FALSE, result |-> <<>>, pos |-> End]
    IN CASE s.op = "Insert" ->
              LET r == InsertOn(pg, rt, s.key, s.value)
              IN [pages |-> r.pages, root_page_id_ |-> r.root_page_id_,
                  out |-> [none EXCEPT !.ret = r.ret]]
         [] s.op = "Remove" -> RemoveOn(pg, rt, s.key) @@ [out |-> none]
         [] s.op = "GetValue" ->
              LET r == GetValueOn(pg, rt, s.key, <<>>)
              IN same @@ [out |-> [none EXCEPT !.ret = r.ret, !.result = r.result]]
         [] s.op = "Begin" -> same @@ [out |-> [none EXCEPT !.pos = BeginOn(pg, rt)]]
         [] s.op = "BeginKey" ->
              same @@ [out |-> [none EXCEPT !.pos = BeginKeyOn(pg, rt, s.key)]]
         [] s.op = "IsEmpty" ->
              same @@ [out |-> [none EXCEPT !.ret = (rt = INVALID_PAGE_ID)]]
         [] s.op = "GetRootPageId" -> same @@ [out |-> [none EXCEPT !.result = <<rt>>]]

\* the calls of the threads run one after the other in the given order
RECURSIVE SeqRun(_, _, _)
SeqRun(pg, rt, order) ==
    IF order = <<>>
    THEN [pages |-> pg, root_page_id_ |-> rt, out |-> <<>>]
    ELSE LET r == SeqCall(pg, rt, thr[Head(order)])
             rest == SeqRun(r.pages, r.root_page_id_, Tail(order))
         IN [rest EXCEPT !.out = (Head(order) :> r.out) @@ rest.out]

Orders ==
    {o \in [1..Cardinality(Threads) -> Threads] :
        \A i, j \in DOMAIN o : i # j => o[i] # o[j]}

Observed(s) == [ret |-> s.ret, result |-> s.result, pos |-> s.pos]
SnapKeys == {e[1] : e \in EntriesOn(snap.pages, snap.root_page_id_)}

(* ------------------------------- claims ------------------------------- *)
\* C1: once Insert(k, v) has returned true, GetValue(k) returns true and
\* yields exactly v, whatever was inserted afterwards and whatever splits
\* and root growth that caused.
C1_RoundTrip ==
    \A e \in inserted : GetValue(e[1], <<>>) = Hit(e[2])

\* an Insert that split a leaf and an internal page (left case) and grew the
\* root, with keys inserted before it
C1_Witness ==
    /\ last.op = "Insert" /\ last.ret
    /\ "left" \in last.branch /\ "new_root" \in last.branch
    /\ \E e \in inserted : e[1] # last.key

\* C2: Insert(k, v) returns false if and only if k is stored in the tree at
\* the time of the call.
C2_FalseIffStored ==
    [][last'.op = "Insert" => (last'.ret = FALSE <=> last'.key \in TreeKeys)]_vars

\* a duplicate refused in a tree of several levels
C2_Witness ==
    /\ last.op = "Insert" /\ ~last.ret
    /\ root_page_id_ # INVALID_PAGE_ID /\ ~IsLeafPage(pages[root_page_id_])

\* C3: an Insert of a key that is already present changes neither the
\* header's root id nor any page, and GetValue of the key still yields the
\* value of its first successful insert.
C3_DuplicateNoOp ==
    [][(last'.op = "Insert" /\ last'.key \in TreeKeys) =>
          /\ root_page_id_' = root_page_id_
          /\ pages' = pages
          /\ \A e \in inserted : e[1] = last'.key =>
                 GetValueOn(pages', root_page_id_', e[1], <<>>) = Hit(e[2])]_vars

\* a second Insert of a stored key with another value
C3_Witness ==
    /\ last.op = "Insert" /\ ~last.ret
    /\ \E e \in inserted : e[1] = last.key /\ e[2] # last.value

\* C4: GetValue(k, result) returns true and appends exactly one value, the
\* one stored with k, when k is stored; it returns false and leaves result
\* as it was when k is not stored.
C4_GetValue ==
    last.op = "GetValue" =>
        IF last.key \in TreeKeys
        THEN /\ last.ret
             /\ Len(last.result) = Len(last.arg) + 1
             /\ SubSeq(last.result, 1, Len(last.arg)) = last.arg
             /\ <<last.key, last.result[Len(last.result)]>> \in TreeEntries
        ELSE ~last.ret /\ last.result = last.arg

\* a hit below an internal root, appended to a vector that was not empty
C4_Witness ==
    /\ last.op = "GetValue" /\ last.ret /\ last.arg # <<>>
    /\ ~IsLeafPage(pages[root_page_id_])

\* C5, as claimed: after Remove(k) of a stored key, GetValue(k) misses and
\* every other stored key is still found with its value.
C5_RemoveDeletes ==
    [][(last'.op = "Remove" /\ last'.key \in TreeKeys) =>
          /\ GetValueOn(pages', root_page_id_', last'.key, <<>>) = Miss
          /\ \A e \in TreeEntries : e[1] # last'.key =>
                 GetValueOn(pages', root_page_id_', e[1], <<>>) = Hit(e[2])]_vars

\* C6, as claimed: once every inserted key has been removed, IsEmpty() is
\* true and the header's root id is INVALID_PAGE_ID.
C6_EmptyAfterRemovingAll ==
    (inserted # {} /\ live = {}) => (IsEmpty /\ root_page_id_ = INVALID_PAGE_ID)

\* C7: Remove(k) of a key that is not stored (never inserted, removed
\* before, or on an empty tree) changes neither the header's root id nor
\* any page.
C7_RemoveAbsentNoOp ==
    [][(last'.op = "Remove" /\ (last'.key \notin TreeKeys \/ last'.key \notin live)) =>
          (root_page_id_' = root_page_id_ /\ pages' = pages)]_vars

\* Remove of a key that was never inserted, on a tree that is not empty
C7_Witness ==
    /\ last.op = "Remove" /\ last.key \notin TreeKeys
    /\ root_page_id_ # INVALID_PAGE_ID

\* C8: the keys of every page of the tree are strictly ascending: slots
\* 0..size-1 of a leaf, slots 1..size-1 of an internal page.
C8_KeysAscending ==
    \A id \in TreePages :
        \A i \in (IF IsLeafPage(pages[id]) THEN 0 ELSE 1)..(GetSize(pages[id]) - 2) :
            KeyAt(pages[id], i) < KeyAt(pages[id], i + 1)

\* an internal page with two separator keys and a leaf chain of three
C8_Witness ==
    /\ last.op = "Insert" /\ last.ret
    /\ \E id \in TreePages : ~IsLeafPage(pages[id]) /\ GetSize(pages[id]) = 3

\* C9: for every internal page P of the tree and slot i < P.size, every key
\* under child i is >= key_at(i) (no bound for i = 0) and < key_at(i+1) (no
\* bound for i = size-1).
C9_KeyRange ==
    \A id \in TreePages : ~IsLeafPage(pages[id]) =>
        \A i \in 0..(GetSize(pages[id]) - 1) :
            \A k \in KeysUnder(pages, ValueAt(pages[id], i)) :
                /\ i >= 1 => k >= KeyAt(pages[id], i)
                /\ i < GetSize(pages[id]) - 1 => k < KeyAt(pages[id], i + 1)

\* an internal split at the boundary followed by root growth
C9_Witness ==
    /\ last.op = "Insert"
    /\ "middle" \in last.branch /\ "new_root" \in last.branch

C11_LeafChain ==
    root_page_id_ # INVALID_PAGE_ID =>
        LET chain == TreeChain
            keys == ChainKeys(pages, chain)
        IN /\ chain # <<>>
           /\ \A i \in 1..Len(chain) : IsLeafPage(pages[chain[i]])
           /\ GetNextPageId(pages[chain[Len(chain)]]) = INVALID_PAGE_ID
           /\ {chain[i] : i \in 1..Len(chain)} = TreeLeaves
           /\ Len(chain) = Cardinality(TreeLeaves)
           /\ \A i \in 1..(Len(keys) - 1) : keys[i] < keys[i + 1]
           /\ {keys[i] : i \in 1..Len(keys)} = TreeKeys
           /\ {keys[i] : i \in 1..Len(keys)} = {e[1] : e \in inserted}

\* a leaf split in the middle of a chain: the new leaf is neither the first
\* nor the last of four
C11_Witness ==
    /\ last.op = "Insert" /\ last.ret /\ last.branch \cap InternalSplit # {}
    /\ Len(TreeChain) = 4
    /\ TreeChain[2] = SetMax(TreeLeaves) \/ TreeChain[3] = SetMax(TreeLeaves)

\* C12: the header's root id is INVALID_PAGE_ID or the id of an initialised
\* leaf or internal page; IsEmpty() is true exactly when it is
\* INVALID_PAGE_ID, which is so right after construction and never again once
\* an Insert has returned true, as long as no key is removed.
C12_RootId ==
    /\ \/ root_page_id_ = INVALID_PAGE_ID
       \/ /\ root_page_id_ \in DOMAIN pages
          /\ pages[root_page_id_].page_type \in {LEAF_PAGE, INTERNAL_PAGE}
          /\ GetMaxSize(pages[root_page_id_]) =
                 IF IsLeafPage(pages[root_page_id_])
                 THEN leaf_max_size_ ELSE internal_max_size_
    /\ IsEmpty <=> root_page_id_ = INVALID_PAGE_ID
    /\ last.op = "IsEmpty" => (last.ret <=> root_page_id_ = INVALID_PAGE_ID)
    /\ last.op = "new" => IsEmpty
    /\ (inserted # {} /\ {e[1] : e \in inserted} \subseteq live) => ~IsEmpty

\* IsEmpty() answering false after the first Insert, nothing removed
C12_Witness ==
    /\ last.op = "IsEmpty" /\ ~last.ret
    /\ Cardinality(inserted) = 1 /\ {e[1] : e \in inserted} \subseteq live

\* C13: the root is a leaf if and only if the tree has height 1, and an
\* internal root has at least two children.
C13_RootShape ==
    root_page_id_ # INVALID_PAGE_ID =>
        LET root == pages[root_page_id_]
        IN /\ IsLeafPage(root) <=> Height(pages, root_page_id_, Len(pages)) = 1
           /\ ~IsLeafPage(root) => GetSize(root) >= 2

\* the root just replaced by a new internal root of two children
C13_Witness ==
    /\ last.op = "Insert" /\ "new_root" \in last.branch
    /\ ~IsLeafPage(pages[root_page_id_]) /\ GetSize(pages[root_page_id_]) = 2
    /\ Height(pages, root_page_id_, Len(pages)) = 3

\* C19, as claimed: Begin(key) is positioned on the smallest stored key that
\* is >= key, and is End when no stored key is >= key.
C19_BeginKeyLowerBound ==
    last.op = "BeginKey" =>
        LET ge == {k \in TreeKeys : k >= last.key}
        IN IF ge = {}
           THEN last.pos = End
           ELSE /\ last.pos[1] \in TreeLeaves
                /\ last.pos[2] \in 0..(GetSize(pages[last.pos[1]]) - 1)
                /\ KeyAt(pages[last.pos[1]], last.pos[2]) = SetMin(ge)

\* C20: Begin() on a tree that is not empty returns slot 0 of the leaf that
\* is reached from the root by child 0 and holds the smallest stored key; on
\* the empty tree it returns End, the pair (INVALID_PAGE_ID, -1).
C20_Begin ==
    last.op = "Begin" =>
        IF root_page_id_ = INVALID_PAGE_ID
        THEN last.pos = End /\ End = <<INVALID_PAGE_ID, -1>>
        ELSE /\ last.pos = <<LeftmostLeaf(pages, root_page_id_, Len(pages)), 0>>
             /\ last.pos[1] \in TreeLeaves
             /\ KeyAt(pages[last.pos[1]], 0) = SetMin(TreeKeys)

\* Begin() on a tree of three levels
C20_Witness ==
    /\ last.op = "Begin" /\ root_page_id_ # INVALID_PAGE_ID
    /\ Height(pages, root_page_id_, Len(pages)) = 3

\* C14, as claimed: when threads have run Insert and Remove concurrently on
\* keys no two of them share, the keys found in the tree afterwards are the
\* inserted keys without the removed ones.
C14_DisjointKeys ==
    (/\ AllDone
     /\ \A t \in Threads : thr[t].op \in {"Insert", "Remove"}
     /\ \A t, u \in Threads : t # u => thr[t].key # thr[u].key) =>
        TreeKeys = (SnapKeys \cup {thr[t].key : t \in {u \in Threads : thr[u].op = "Insert"}})
                       \ {thr[t].key : t \in {u \in Threads : thr[u].op = "Remove"}}

\* C15: the return values of concurrent calls and the mapping they leave are
\* those of the same calls run one after the other in some order; of two
\* concurrent Inserts of one absent key exactly one returns true, and its
\* value is the one stored.
C15_Linearizable ==
    AllDone =>
        /\ \E order \in Orders :
              LET run == SeqRun(snap.pages, snap.root_page_id_, order)
              IN /\ \A t \in Threads : Observed(thr[t]) = run.out[t]
                 /\ TreeEntries = EntriesOn(run.pages, run.root_page_id_)
        /\ \A t, u \in Threads :
              (/\ t # u
               /\ thr[t].op = "Insert" /\ thr[u].op = "Insert"
               /\ thr[t].key = thr[u].key /\ thr[t].key \notin SnapKeys) =>
                  /\ thr[t].ret # thr[u].ret
                  /\ thr[t].ret =>
                        {e \in TreeEntries : e[1] = thr[t].key}
                            = {<<thr[t].key, thr[t].value>>}

\* two Inserts of one absent key, with different values, below an internal
\* root
C15_Witness ==
    /\ AllDone
    /\ \A t \in Threads : thr[t].op = "Insert" /\ thr[t].key = thr[1].key
    /\ thr[1].key \notin SnapKeys
    /\ thr[1].value # thr[2].value
    /\ snap.root_page_id_ # INVALID_PAGE_ID
    /\ ~IsLeafPage(snap.pages[snap.root_page_id_])

\* C16: once threads are calling, a page that existed before a step is
\* changed by the step only if the thread taking the step holds the page's
\* write latch and no other thread holds a latch on it; the header's root id
\* likewise under the header's write latch.
C16_WriteLatched ==
    [][snap.taken =>
          \A id \in DOMAIN pages \cup {header_page_id_} :
              (IF id = header_page_id_
               THEN root_page_id_' # root_page_id_
               ELSE pages'[id] # pages[id]) =>
                  \E t \in Threads :
                      /\ thr'[t] # thr[t]
                      /\ HoldsWrite(thr[t], id)
                      /\ \A u \in Threads \ {t} : id \notin HeldBy(thr[u])]_vars

\* an Insert that split a leaf and wrote its parent has returned while
\* another thread is inside the tree
C16_Witness ==
    /\ \E t \in Threads :
          /\ thr[t].pc = "done" /\ thr[t].op = "Insert" /\ thr[t].ret
          /\ Len(pages) > Len(snap.pages)
          /\ root_page_id_ = snap.root_page_id_
          /\ root_page_id_ # INVALID_PAGE_ID
    /\ \E u \in Threads : thr[u].pc \in {"descend", "leaf"}

\* threads are running and every one of them waits for a latch
Deadlock ==
    /\ \E t \in Threads : Running(t)
    /\ \A t \in Threads : Running(t) => Blocked(t)

\* C17: no interleaving of Insert, Remove, GetValue, Begin, IsEmpty and
\* GetRootPageId calls reaches a state in which threads are running and all
\* of them wait for a latch; under fair scheduling every call returns.
C17_NoDeadlock ==
    /\ [](~Deadlock)
    /\ \A t \in Threads : []<>(~Running(t))

\* a thread waits for the header latch, which an Insert holds together with
\* the latch of the root, a leaf that is not safe
C17_Witness ==
    \E t, u \in Threads :
        /\ Blocked(t) /\ thr[t].pc = "entry"
        /\ thr[u].op = "Insert" /\ thr[u].pc = "leaf"
        /\ thr[u].header_page_ = "write" /\ thr[u].write_set_ = <<root_page_id_>>

C30_BinaryFindInternal ==
    last.op = "BinaryFind" =>
        LET p == pages[last.pos[1]]
            i == last.pos[2]
        IN /\ i \in 0..(GetSize(p) - 1)
           /\ i >= 1 => KeyAt(p, i) <= last.key
           /\ i < GetSize(p) - 1 => last.key < KeyAt(p, i + 1)
           /\ \A j \in 1..(GetSize(p) - 1) : KeyAt(p, j) = last.key => i = j

\* a target equal to the separator of slot 2 found there, on a page whose
\* slot 0 holds a greater key
C30_Witness ==
    /\ last.op = "BinaryFind"
    /\ GetSize(pages[1]) >= 3
    /\ last.pos[2] = 2
    /\ KeyAt(pages[1], 2) = last.key
    /\ KeyAt(pages[1], 0) > last.key

(* ----------------------------- the splits ----------------------------- *)
\* the pages Insert and GetValue go through for key, from page id to the leaf
RECURSIVE DescentPath(_, _, _, _)
DescentPath(pg, id, key, d) ==
    IF id \notin DOMAIN pg \/ d = 0
    THEN <<>>
    ELSE IF IsLeafPage(pg[id])
    THEN <<id>>
    ELSE <<id>> \o DescentPath(pg, ValueAt(pg[id], BinaryFindInternal(pg[id], key)),
                               key, d - 1)

\* the entries of a leaf, the child ids of an internal page and its
\* separators (the keys of slots 1..size-1), in slot order
LeafSeq(p) == [i \in 1..GetSize(p) |-> <<KeyAt(p, i - 1), ValueAt(p, i - 1)>>]
ChildSeq(p) == [i \in 1..GetSize(p) |-> ValueAt(p, i - 1)]
SepSeq(p) == [i \in 1..(GetSize(p) - 1) |-> KeyAt(p, i)]

\* s with x put after its first n elements
InsertAt(s, n, x) == SubSeq(s, 1, n) \o <<x>> \o SubSeq(s, n + 1, Len(s))

\* the number of keys of the sequence of keys s that are below key
Below(s, key) == Cardinality({i \in DOMAIN s : s[i] < key})

\* some internal page of pg holds child id in a slot whose key is key
SeparatorFor(pg, id, key) ==
    \E p \in DOMAIN pg :
        /\ ~IsLeafPage(pg[p])
        /\ \E i \in 0..(GetSize(pg[p]) - 1) :
              ValueAt(pg[p], i) = id /\ KeyAt(pg[p], i) = key

SplitBranches == {"new_root", "room"} \cup InternalSplit

InternalSplitStep(half(_)) ==
    (last'.op = "Insert" /\ root_page_id_ # INVALID_PAGE_ID) =>
       LET path == DescentPath(pages, root_page_id_, last'.key, Len(pages))
           n == Len(path)
           Shrinks(j) == GetSize(pages'[path[n - j]]) < GetSize(pages[path[n - j]])
       IN \A j \in 1..(n - 1) :
            LET P == pages[path[n - j]]
                P2 == pages'[path[n - j]]
                C == Len(pages) + j
                below == IF j = 1 THEN Len(pages') > Len(pages) ELSE Shrinks(j - 1)
            IN /\ Shrinks(j) <=> (below /\ GetSize(P) = GetMaxSize(P))
               /\ Shrinks(j) =>
                     LET N == pages'[C + 1]
                         K == KeyAt(pages'[C], 0)
                         at == Below(SepSeq(P), K)
                     IN /\ GetSize(P2) = half(GetMaxSize(P))
                        /\ GetSize(N) = GetMaxSize(P) + 1 - GetSize(P2)
                        /\ ChildSeq(P2) \o ChildSeq(N) = InsertAt(ChildSeq(P), at + 1, C)
                        /\ SepSeq(P2) \o <<KeyAt(N, 0)>> \o SepSeq(N)
                               = InsertAt(SepSeq(P), at, K)
                        /\ SeparatorFor(pages', C + 1, KeyAt(N, 0))

CeilHalf(max) == (max + 1) \div 2
CeilHalfPlus(max) == (max + 2) \div 2

C28_MiddleSplit ==
    [][(last'.op = "Insert" /\ root_page_id_ # INVALID_PAGE_ID) =>
          LET path == DescentPath(pages, root_page_id_, last'.key, Len(pages))
              n == Len(path)
          IN \A j \in 1..(n - 1) :
               LET P == pages[path[n - j]]
                   P2 == pages'[path[n - j]]
                   C == Len(pages) + j
               IN GetSize(P2) < GetSize(P) =>
                     LET N == pages'[C + 1]
                         K == KeyAt(pages'[C], 0)
                         boundary == GetSize(P2)
                     IN Below(SepSeq(P), K) + 1 = boundary =>
                           /\ "middle" \in last'.branch
                           /\ KeyAt(N, 0) = K
                           /\ ValueAt(N, 0) = C
                           /\ SeparatorFor(pages', C + 1, K)
                           /\ GetSize(N) = GetSize(P) - boundary + 1
                           /\ \A i \in 1..(GetSize(N) - 1) :
                                 /\ KeyAt(N, i) = KeyAt(P, boundary + i - 1)
                                 /\ ValueAt(N, i) = ValueAt(P, boundary + i - 1)
                           /\ \A i \in 0..(boundary - 1) :
                                 ValueAt(P2, i) = ValueAt(P, i)
      ]_vars

\* an internal split through the middle case whose new page holds the page
\* made by the split below in slot 0, under the promoted key
C28_Witness ==
    /\ last.op = "Insert"
    /\ last.branch \cap InternalSplit = {"middle"}
    /\ \E q \in TreePages :
          /\ ~IsLeafPage(pages[q])
          /\ q = Len(pages) - (IF "new_root" \in last.branch THEN 1 ELSE 0)
          /\ ValueAt(pages[q], 0) = q - 1
          /\ GetSize(pages[q]) >= 2
          /\ SeparatorFor(pages, q, KeyAt(pages[q], 0))

\* C29: when the root splits, a new internal root of size 2 is made: child 0
\* is the old root, child 1 the new right sibling, the key of slot 1 the
\* promoted separator, and the header's root id becomes the new page; on a
\* non-empty tree an Insert changes the header's root id in no other case.
C29_RootSplit ==
    [][(last'.op = "Insert" /\ root_page_id_ # INVALID_PAGE_ID) =>
          LET old == pages[root_page_id_]
              path == DescentPath(pages, root_page_id_, last'.key, Len(pages))
              root_splits ==
                  /\ Len(pages') > Len(pages)
                  /\ \A i \in 1..Len(path) :
                        IF IsLeafPage(pages[path[i]])
                        THEN GetSize(pages[path[i]]) + 1 = GetMaxSize(pages[path[i]])
                        ELSE GetSize(pages[path[i]]) = GetMaxSize(pages[path[i]])
              new == pages'[root_page_id_']
              sibling == ValueAt(new, 1)
          IN /\ (root_page_id_' # root_page_id_) <=> root_splits
             /\ root_splits =>
                   /\ root_page_id_' = Len(pages')
                   /\ root_page_id_' \notin DOMAIN pages
                   /\ ~IsLeafPage(new)
                   /\ GetSize(new) = 2
                   /\ GetMaxSize(new) = internal_max_size_
                   /\ ValueAt(new, 0) = root_page_id_
                   /\ sibling \in DOMAIN pages' \ DOMAIN pages
                   /\ sibling # root_page_id_'
                   /\ IsLeafPage(pages'[sibling]) = IsLeafPage(old)
                   /\ KeyAt(new, 1) = KeyAt(pages'[sibling], 0)
                   /\ \A k \in KeysUnder(pages', root_page_id_) : k < KeyAt(new, 1)
                   /\ \A k \in KeysUnder(pages', sibling) : k >= KeyAt(new, 1)
      ]_vars

\* an internal root that split: the new root above two internal pages
C29_Witness ==
    /\ last.op = "Insert"
    /\ "new_root" \in last.branch
    /\ last.branch \cap InternalSplit # {}
    /\ root_page_id_ = Len(pages)
    /\ GetSize(pages[root_page_id_]) = 2
    /\ ~IsLeafPage(pages[ValueAt(pages[root_page_id_], 0)])
    /\ ValueAt(pages[root_page_id_], 1) = Len(pages) - 1

(* ------------------------ the tree of S1Keys -------------------------- *)
\* the tree under page id: the keys of the page (an internal page's
\* separators, a leaf's keys) and the trees under its children
RECURSIVE ShapeUnder(_, _, _)
ShapeUnder(pg, id, d) ==
    IF id \notin DOMAIN pg \/ d = 0
    THEN [keys |-> <<>>, children |-> <<>>]
    ELSE IF IsLeafPage(pg[id])
    THEN [keys |-> [i \in 1..GetSize(pg[id]) |-> KeyAt(pg[id], i - 1)],
          children |-> <<>>]
    ELSE [keys |-> SepSeq(pg[id]),
          children |-> [i \in 1..GetSize(pg[id]) |->
                           ShapeUnder(pg, ValueAt(pg[id], i - 1), d - 1)]]

LeafOf(keys) == [keys |-> keys, children |-> <<>>]
NodeOf(keys, children) == [keys |-> keys, children |-> children]

S1Done ==
    /\ leaf_max_size_ = 3 /\ internal_max_size_ = 4
    /\ Cardinality(inserted) = Len(S1Keys)

JudgedSafe(page) ==
    IF IsLeafPage(page)
    THEN GetSize(page) + 1 < GetMaxSize(page)
    ELSE GetSize(page) < GetMaxSize(page)

InDescent(s) == s.op = "Insert" /\ s.pc \in {"descend", "leaf"}

IsChildOf(pg, id, parent) ==
    /\ parent \in DOMAIN pg
    /\ ~IsLeafPage(pg[parent])
    /\ \E i \in 0..(GetSize(pg[parent]) - 1) : ValueAt(pg[parent], i) = id

\* C22: in the descent of Insert, once the page latched last (the root or a
\* child) is insert-safe, the thread holds no write latch on an ancestor of
\* it and not the header's write latch either.
C22_ReleaseOnSafe ==
    \A t \in Threads :
        InDescent(thr[t]) =>
            LET ws == thr[t].write_set_
                node == ws[Len(ws)]
            IN JudgedSafe(pages[node]) =>
                  /\ ws = <<node>>
                  /\ thr[t].header_page_ = "none"

\* page id was split by the step: a leaf gets a new right neighbour, an
\* internal page loses entries
SplitIn(id) ==
    IF IsLeafPage(pages[id])
    THEN GetNextPageId(pages'[id]) # GetNextPageId(pages[id])
    ELSE GetSize(pages'[id]) < GetSize(pages[id])

\* C23: whenever a split goes upward, the page it needs is latched: above a
\* page that splits the thread holds that page's parent, and when the first
\* page of its path splits, that page is the one the header names as root and
\* the thread holds the header's write latch. Equivalently, a page judged
\* insert-safe does not split in the same operation.
C23_SplitLatched ==
    [][/\ \A t \in Threads :
             (InDescent(thr[t]) /\ thr'[t].pc = "done") =>
                 LET ws == thr[t].write_set_
                 IN /\ ~thr'[t].fault
                    /\ \A id \in DOMAIN pages :
                          SplitIn(id) =>
                             \E i \in 1..Len(ws) :
                                /\ ws[i] = id
                                /\ IF i = 1
                                   THEN /\ id = root_page_id_
                                        /\ thr[t].header_page_ = "write"
                                        /\ ~JudgedSafe(pages[id])
                                   ELSE /\ IsChildOf(pages, id, ws[i - 1])
                                        /\ pages'[ws[i - 1]] # pages[ws[i - 1]]
       /\ \A t \in Threads :
             InDescent(thr'[t]) =>
                 LET ws == thr'[t].write_set_
                 IN /\ \A i \in 2..Len(ws) : IsChildOf(pages', ws[i], ws[i - 1])
                    /\ \/ JudgedSafe(pages'[ws[1]])
                       \/ ws[1] = root_page_id_' /\ thr'[t].header_page_ = "write"
       /\ \A id \in DOMAIN pages : JudgedSafe(pages[id]) => ~SplitIn(id)
      ]_vars

\* a thread's Insert has split the root under the header latch and returned
\* while the other thread is on its way down
C23_Witness ==
    \E t, u \in Threads :
        /\ thr[t].op = "Insert" /\ thr[t].pc = "done" /\ thr[t].ret
        /\ root_page_id_ # snap.root_page_id_
        /\ snap.root_page_id_ # INVALID_PAGE_ID
        /\ root_page_id_ = Len(pages)
        /\ InDescent(thr[u])

\* the latch a step of thread t takes, if it takes one
Acquired(t) ==
    IF thr'[t] = thr[t]
    THEN {}
    ELSE IF thr[t].pc = "entry" /\ thr'[t].pc = "header"
    THEN {header_page_id_}
    ELSE IF thr[t].pc \in {"header", "descend"} /\ thr'[t].pc \in {"descend", "leaf"}
    THEN IF thr[t].op = "Insert"
         THEN {thr'[t].write_set_[Len(thr'[t].write_set_)]}
         ELSE {thr'[t].guard}
    ELSE {}

\* C24: Insert, GetValue, Begin and Begin(key) take their latches in the
\* order header, root, child, grandchild: a latch on a page is requested
\* while the latch of its parent (the header for the root) is held, never
\* while a latch on the page or on one below it is held, and the header's
\* latch is requested while no latch is held.
C24_LatchOrder ==
    [][\A t \in Threads : \A id \in Acquired(t) :
          LET held == HeldBy(thr[t])
          IN IF id = header_page_id_
             THEN held = {}
             ELSE /\ IF id = root_page_id_
                     THEN held = {header_page_id_}
                     ELSE \E h \in held \ {header_page_id_} : IsChildOf(pages, id, h)
                  /\ \A h \in held \ {header_page_id_} :
                        h \notin PagesUnder(pages, id, Len(pages))
                  /\ thr[t].op = "Insert" =>
                        \A i \in 1..Len(thr[t].write_set_) :
                            thr[t].write_set_[i] # id
      ]_vars

\* an Insert that holds the root and a full internal page below it has
\* latched a leaf under that page
C24_Witness ==
    /\ thr[1].op = "Insert" /\ thr[1].pc = "leaf"
    /\ Len(thr[1].write_set_) = 3
    /\ thr[1].write_set_[1] = root_page_id_
    /\ IsChildOf(pages, thr[1].write_set_[2], thr[1].write_set_[1])
    /\ IsChildOf(pages, thr[1].write_set_[3], thr[1].write_set_[2])

\* C25: GetValue, Begin and Begin(key) take read latches only; the header's
\* read latch is released once the root is read-latched, before a child of
\* the root is latched; after each step down the parent's latch is released:
\* between steps the thread holds one page latch, and never more than two
\* latches at any moment.
C25_ReadCrabbing ==
    [][\A t \in Threads :
          thr'[t].op \in Readers =>
             LET s == thr'[t]
             IN /\ s.write_set_ = <<>>
                /\ s.header_page_ # "write"
                /\ s.pc = "header" => HeldBy(s) = {header_page_id_}
                /\ s.pc \in {"descend", "leaf"} =>
                      /\ s.header_page_ = "none"
                      /\ HeldBy(s) = {s.guard}
                      /\ s.guard \in DOMAIN pages
                /\ thr[t].op \in Readers =>
                      Cardinality(HeldBy(thr[t]) \cup HeldBy(s)) <= 2
      ]_vars

\* a reader two levels below the root holds the read latch of a leaf and
\* nothing else while the other thread is inside an Insert
C25_Witness ==
    \E t, u \in Threads :
        /\ thr[t].op \in Readers /\ thr[t].pc = "leaf"
        /\ thr[t].guard # root_page_id_
        /\ ~IsChildOf(pages, thr[t].guard, root_page_id_)
        /\ HeldBy(thr[t]) = {thr[t].guard}
        /\ InDescent(thr[u])

\* C31: BinaryFind on a leaf returns, for every target and every leaf size
\* >= 0, the largest slot i of 0..size-1 whose key is <= the target, and -1
\* if the leaf is empty or all its keys are greater.
C31_BinaryFindLeaf ==
    last.op = "BinaryFindLeaf" =>
        LET p == pages[last.pos[1]]
            below == {j \in 0..(GetSize(p) - 1) : KeyAt(p, j) <= last.key}
        IN last.pos[2] = IF below = {} THEN -1 ELSE SetMax(below)

\* a target between two keys of a leaf and below its last key: the slot of
\* the lower key is returned
C31_Witness ==
    /\ last.op = "BinaryFindLeaf"
    /\ GetSize(pages[1]) >= 3
    /\ last.pos[2] = 1
    /\ KeyAt(pages[1], 1) < last.key
    /\ KeyAt(pages[1], 2) > last.key


\* C32: when an Insert completes, after a split and on the duplicate-key
\* exit through Context::clear alike, the write latches it still holds
\* are released in reverse order of their acquisition: the deepest page
\* first, then its ancestors, and the header latch, if still held, last.
C32_ReverseRelease ==
    [][\A t \in Threads :
          (thr[t].op = "Insert" /\ thr[t].pc = "leaf" /\ thr'[t].pc = "done")
              => thr'[t].released = Reverse(thr[t].write_set_) \o HeaderHeld(thr[t])]_vars

\* C33: if the buffer pool fails to provide a new page during an Insert
\* that needs a leaf split, an internal split or a new root, the tree is
\* left in its pre-operation state: the pages of the tree are as they were,
\* the key is not stored, no leaf is left with size == max, and no child id
\* or next-leaf id refers to a page that was not allocated.
C33_FailedAllocation ==
    [][(last'.op = "Insert" /\ "alloc_failed" \in last'.branch /\ root_page_id_ # INVALID_PAGE_ID)
          => /\ root_page_id_' = root_page_id_
             /\ TreePages' = TreePages
             /\ \A id \in TreePages : pages'[id] = pages[id]
             /\ last'.key \notin TreeKeys'
             /\ \A id \in TreeLeaves' : GetSize(pages'[id]) < GetMaxSize(pages'[id])
             /\ \A id \in TreeLeaves' :
                   GetNextPageId(pages'[id]) \in DOMAIN pages' \cup {INVALID_PAGE_ID}]_vars

\* C34: every key or child-id write that Insert_Up performs on an internal
\* page, in the non-split insertion and in the left, middle and right split
\* cases, targets a slot index in 0..max_size-1 of that page.
C34_WritesInsidePage ==
    \A id \in DOMAIN pages :
        ~IsLeafPage(pages[id]) => pages[id].written <= GetMaxSize(pages[id]) - 1

\* page p holds a pointer to page n: a child id of an internal page, the
\* next-leaf id of a leaf
PointsTo(p, n) ==
    IF IsLeafPage(p)
    THEN GetNextPageId(p) = n
    ELSE \E i \in 0..(GetSize(p) - 1) : ValueAt(p, i) = n

\* the pages thread t holds a write latch on through write_set_
WriteSet(t) == {thr[t].write_set_[i] : i \in 1..Len(thr[t].write_set_)}

\* the new leaf of thread t's split, linked and not yet filled, is named only
\* by pages t holds write-latched, and no other thread holds a latch on it
Hidden(t) ==
    LET n == thr[t].new_page
    IN /\ root_page_id_ # n
       /\ \A u \in Threads \ {t} : n \notin HeldBy(thr[u])
       /\ \A q \in DOMAIN pages : PointsTo(pages[q], n) => q \in WriteSet(t)

\* C35: a page allocated during an Insert cannot be reached and latched by
\* another Insert, GetValue or Begin before the allocating Insert has
\* finished writing its entries: while the new leaf is linked and not yet
\* filled only pages write-latched by the allocating thread point to it and
\* no other thread holds it, and every pointer to a new page (the split
\* leaf's next id, the parent's child id, the header's root id) is written
\* into a page the allocating thread holds write-latched.
C35_NewPageHidden ==
    [][\A t \in Threads :
          /\ thr'[t].pc = "split" => Hidden(t)'
          /\ (thr'[t] # thr[t] /\ thr[t].op = "Insert") =>
                \A n \in ((DOMAIN pages') \ (DOMAIN pages))
                             \cup (IF thr[t].pc = "split" THEN {thr[t].new_page} ELSE {}) :
                    /\ (root_page_id_' = n /\ root_page_id_ # n)
                           => thr[t].header_page_ = "write"
                    /\ \A q \in DOMAIN pages :
                          (q # n /\ PointsTo(pages'[q], n) /\ ~PointsTo(pages[q], n))
                              => q \in WriteSet(t)]_vars

\* a thread has linked a new leaf behind a leaf under an internal root and
\* has not yet filled it, while the other thread holds a latch on another
\* page of the tree
C35_Witness ==
    \E t \in Threads :
        /\ thr[t].pc = "split"
        /\ ~IsLeafPage(pages[root_page_id_])
        /\ GetSize(pages[thr[t].new_page]) > 0
        /\ KeyAt(pages[thr[t].new_page], 0) = 0
        /\ \E u \in Threads \ {t} :
               HeldBy(thr[u]) \cap TreePages # {}

\* the (page, slot) pairs of the tree's internal pages whose child id is p
ParentSlots(p) ==
    {qs \in {q \in TreePages : ~IsLeafPage(pages[q])} \X Slots :
        qs[2] < GetSize(pages[qs[1]]) /\ ValueAt(pages[qs[1]], qs[2]) = p}

\* the pages under the children of page q
Descendants(q) ==
    IF IsLeafPage(pages[q])
    THEN {}
    ELSE UNION {PagesUnder(pages, ValueAt(pages[q], i), Len(pages)) :
                   i \in 0..(GetSize(pages[q]) - 1)}

\* the depths at which leaves are found under page id, the page being at
\* depth at
RECURSIVE LeafDepths(_, _, _, _)
LeafDepths(pg, id, at, d) ==
    IF id \notin DOMAIN pg \/ d = 0
    THEN {-1}
    ELSE IF IsLeafPage(pg[id])
    THEN {at}
    ELSE UNION {LeafDepths(pg, ValueAt(pg[id], i), at + 1, d - 1) :
                   i \in 0..(GetSize(pg[id]) - 1)}

\* C36: in every state between operations the pages reachable from the
\* header's root id form a tree: every reachable non-root page is the child
\* of exactly one slot of exactly one internal page, the root is the child
\* of none, no page is reachable from itself, and all leaves are at the
\* same depth.
C36_TreeShape ==
    root_page_id_ # INVALID_PAGE_ID =>
        /\ root_page_id_ \in DOMAIN pages
        /\ ParentSlots(root_page_id_) = {}
        /\ \A p \in TreePages \ {root_page_id_} : Cardinality(ParentSlots(p)) = 1
        /\ \A p \in TreePages : p \notin Descendants(p)
        /\ \E depth \in 0..Len(pages) :
               LeafDepths(pages, root_page_id_, 0, Len(pages) + 1) = {depth}

\* a tree of three levels, just grown by an Insert that split a leaf and an
\* internal page and made a new root
C36_Witness ==
    /\ last.op = "Insert" /\ "new_root" \in last.branch
    /\ last.branch \cap InternalSplit # {}
    /\ LeafDepths(pages, root_page_id_, 0, Len(pages) + 1) = {2}
    /\ Cardinality(TreePages) >= 7

ReadOps == {"GetValue", "IsEmpty", "GetRootPageId", "Begin", "BeginKey", "End"}

\* C37: GetValue, IsEmpty, GetRootPageId, Begin, Begin(key) and End change
\* nothing in the tree: the header's root id and every page's type, size,
\* keys, values, child ids and next-leaf id are the same after the call as
\* before it, and no page is allocated.
C37_ReadsChangeNothing ==
    [][last'.op \in ReadOps =>
          /\ root_page_id_' = root_page_id_
          /\ DOMAIN pages' = DOMAIN pages
          /\ \A id \in DOMAIN pages :
                /\ pages'[id].page_type = pages[id].page_type
                /\ GetSize(pages'[id]) = GetSize(pages[id])
                /\ GetMaxSize(pages'[id]) = GetMaxSize(pages[id])
                /\ GetNextPageId(pages'[id]) = GetNextPageId(pages[id])
                /\ \A i \in Slots :
                      /\ KeyAt(pages'[id], i) = KeyAt(pages[id], i)
                      /\ ValueAt(pages'[id], i) = ValueAt(pages[id], i)]_vars

\* Begin(key) has returned an iterator into a leaf below an internal root
C37_Witness ==
    /\ last.op = "BeginKey" /\ last.pos # End
    /\ root_page_id_ # INVALID_PAGE_ID
    /\ ~IsLeafPage(pages[root_page_id_])
    /\ last.pos[1] \in TreeLeaves

====
